---- MODULE Spec2Model ----
(***************************************************************************)
(* project-dash: the dashboard state machine (src/src/app.rs), the GitHub  *)
(* fetcher with its process-wide cache (src/src/github.rs) and the control *)
(* loop that feeds messages to App::update (src/src/main.rs).              *)
(*                                                                         *)
(* One step of the control loop is one action: the frame is drawn, one     *)
(* message is taken and App::update runs to completion on it.  Messages    *)
(* produced by the keyboard reader are handed to update as they arrive.    *)
(* A scan or fetch task sends exactly one message, some time after its     *)
(* work is done, and tasks run in parallel: the channel (tokio mpsc) keeps *)
(* the order of the sends, but finished tasks may send in any order, so    *)
(* the results not yet received are kept with the tasks that hold them     *)
(* (pc = "sent") and the loop may receive any of them next.                *)
(***************************************************************************)
EXTENDS Integers, Sequences, FiniteSets, Bags, TLC

\* ------------------------------------------------------------------ bounds
MaxOutstanding == 2   \* fetch tasks running or with an unprocessed result
MaxScans == 2         \* scans running or with an unprocessed result
MaxScroll == 1        \* detail_scroll explored this far from either end
TimeStep == 3600      \* seconds that pass in one step of the clock
Moment == 1799        \* seconds that pass in one short step of the clock
MaxTotal == 12        \* the largest total count an endpoint reports
MaxEntries == 2       \* entries of one repo.statuses(None) list

\* ------------------------------------------------------- program constants
CACHE_TTL == 3600
U16_MAX == 65535      \* detail_scroll: u16
REPO_CACHE_TTL == 3600

\* ------------------------------------------------------------ Option<T>
None == <<>>
Some(x) == <<x>>
IsSome(o) == o # <<>>
Unwrap(o) == o[1]

\* No library function is being called by itself.
NoCall == [fn |-> "none"]

\* --------------------------------------------------------- the environment
\* Repository paths that can exist below scan_path; the name of a repository
\* is the last component of its path, so the paths are listed in name order.
Paths == <<"a", "b", "c">>
PathSet == {Paths[i] : i \in 1..Len(Paths)}

\* RepoInfo.github_repo as analyze_repo_uncached derives it from the origin
\* remote: "a" and "c" are GitHub clones, "b" has no GitHub remote.
GithubRepoOf(p) ==
    CASE p = "a" -> Some("o/a")
      [] p = "c" -> Some("o/c")
      [] OTHER -> None

\* What the network can answer for a repository, and the error texts.
DataVals == {"d1"}
ErrVals == {"e"}

\* A freshly analysed repository: github_data and github_error unset.
RepoInfo(p) ==
    [path |-> p, github_repo |-> GithubRepoOf(p),
     github_data |-> None, github_error |-> None]

\* scan_directory over a tree in which the repositories `present` exist: they
\* are returned sorted by name.
RECURSIVE ListOf(_, _)
ListOf(present, i) ==
    IF i > Len(Paths) THEN <<>>
    ELSE (IF Paths[i] \in present THEN <<RepoInfo(Paths[i])>> ELSE <<>>)
         \o ListOf(present, i + 1)

\* The lists a scan can return when the repositories of `t` come and go
\* between scans.
ScanLists(t) == {ListOf(present, 1) : present \in SUBSET t}

\* Screen regions as the last draw left them (ui.rs), in terminal cells.
ListArea == [x |-> 0, y |-> 1, width |-> 4, height |-> 5]
TabBarRect == [x |-> 4, y |-> 2, width |-> 30, height |-> 1]
ZeroRect == [x |-> 0, y |-> 0, width |-> 0, height |-> 0]
\* The cells <<column, row>> clicked: the list's header, its first and second
\* data rows, each of the four tab labels, and a cell of the detail content.
ClickCells == {<<1, 2>>, <<1, 3>>, <<1, 4>>, <<4, 2>>, <<13, 2>>, <<23, 2>>,
               <<31, 2>>, <<13, 4>>}

VARIABLES
    tree,             \* the repositories that can be found below scan_path
    repos,            \* App.repos: sequence of RepoInfo
    selected,         \* App.table_state.selected(): Option<index from 0>
    state,            \* App.state: "Scanning" | "Ready"
    active_pane,      \* App.active_pane: "RepoList" | "Detail"
    detail_tab,       \* App.detail_tab
    detail_scroll,    \* App.detail_scroll
    should_quit,      \* App.should_quit
    tab_bar_area,     \* App.tab_bar_area
    github_fetching,  \* App.github_fetching: set of paths
    CACHE,            \* github.rs CACHE: key -> Option<[data, age]>, where
                      \* age is fetched_at.elapsed() in seconds
    tasks,            \* bag of fetch tasks [path, key, pc, msg] whose
                      \* message update has not received yet
    scans,            \* number of scan tasks whose ReposScanned update has
                      \* not received yet
    received,         \* history: the result message (its type and path)
                      \* that update processed last
    scan_detail,      \* granularity, fixed at the start: TRUE when each scan
                      \* task is followed through its cache lookups, FALSE
                      \* when a scan is only counted and its list drawn at
                      \* delivery
    REPO_CACHE,       \* repo.rs REPO_CACHE: path -> Option<[age]>, age being
                      \* scanned_at.elapsed() in seconds (the cached info is
                      \* RepoInfo(path)); followed under scan_detail
    scanners,         \* bag of the scan tasks followed: [forced, pc, todo,
                      \* cur, done, hits]
    call              \* a library function called by itself, outside the
                      \* dashboard: [fn, arg, ret], ret being None until
                      \* the function has returned; NoCall in the dashboard

vars == <<tree, repos, selected, state, active_pane, detail_tab, detail_scroll,
          should_quit, tab_bar_area, github_fetching, CACHE, tasks,
          scans, received, scan_detail, REPO_CACHE, scanners, call>>

TypeOK ==
    /\ tree \subseteq PathSet
    /\ \A i \in 1..Len(repos) : repos[i].path \in tree
    /\ selected \in {None} \cup {Some(i) : i \in 0..Len(Paths)}
    /\ state \in {"Scanning", "Ready"}
    /\ active_pane \in {"RepoList", "Detail"}
    /\ detail_tab \in {"Changes", "Commits", "Issues", "Prs"}
    /\ detail_scroll \in 0..U16_MAX
    /\ should_quit \in BOOLEAN
    /\ github_fetching \subseteq PathSet
    /\ scans \in Nat
    /\ scan_detail \in BOOLEAN
    /\ scan_detail => BagCardinality(scanners) = scans

\* ------------------------------------------------------------ app.rs helpers
\* DetailTab::next / DetailTab::prev
TabNext(t) ==
    CASE t = "Changes" -> "Commits"
      [] t = "Commits" -> "Issues"
      [] t = "Issues" -> "Prs"
      [] OTHER -> "Changes"

TabPrev(t) ==
    CASE t = "Changes" -> "Prs"
      [] t = "Commits" -> "Changes"
      [] t = "Issues" -> "Commits"
      [] OTHER -> "Issues"

\* App::selected_repo: table_state.selected().and_then(|i| repos.get(i))
selected_repo(rs, sel) ==
    IF IsSome(sel) /\ Unwrap(sel) < Len(rs) THEN Some(rs[Unwrap(sel) + 1])
    ELSE None

\* repos.iter_mut().find(|r| r.path == path): the first index (from 1) of a
\* repository with that path, 0 when there is none.
FindByPath(rs, p) ==
    IF \E i \in 1..Len(rs) : rs[i].path = p
    THEN CHOOSE i \in 1..Len(rs) :
            /\ rs[i].path = p
            /\ \A j \in 1..(i - 1) : rs[j].path # p
    ELSE 0

\* Rect hit test used by Click for the list area and the click zones.
InRect(rect, column, row) ==
    /\ column >= rect.x
    /\ column < rect.x + rect.width
    /\ row >= rect.y
    /\ row < rect.y + rect.height

\* Tab chosen by a click `rel` cells right of the tab bar's left edge.
TabAt(rel) ==
    IF rel < 9 THEN "Changes"
    ELSE IF rel < 19 THEN "Commits"
    ELSE IF rel < 27 THEN "Issues"
    ELSE "Prs"

\* ------------------------------------------------ the fetch-trigger check
\* The skip conditions without the in-flight test.
ShouldFetchNoDedup(rs, sel, fetching) ==
    LET r == selected_repo(rs, sel) IN
    /\ IsSome(r)
    /\ ~IsSome(Unwrap(r).github_data)
    /\ ~IsSome(Unwrap(r).github_error)
    /\ IsSome(Unwrap(r).github_repo)

\* The skip conditions of maybe_fetch_selected_github: TRUE when a fetch is
\* to be launched for the selected repository.
ShouldFetch(rs, sel, fetching) ==
    LET r == selected_repo(rs, sel) IN
    /\ IsSome(r)
    /\ ~IsSome(Unwrap(r).github_data)
    /\ ~IsSome(Unwrap(r).github_error)
    /\ Unwrap(r).path \notin fetching
    /\ IsSome(Unwrap(r).github_repo)

\* A check that spawns the task without entering the path in the in-flight
\* set.
maybe_fetch_unregistered(rs, sel, fetching) ==
    IF ShouldFetch(rs, sel, fetching)
    THEN LET r == Unwrap(selected_repo(rs, sel)) IN
         [fetching |-> fetching,
          spawn |-> Some([path |-> r.path, key |-> Unwrap(r.github_repo),
                          pc |-> "start", msg |-> None])]
    ELSE [fetching |-> fetching, spawn |-> None]

\* maybe_fetch_selected_github: the in-flight set it leaves and the task it
\* spawns (None when it returns early).
maybe_fetch_selected_github(rs, sel, fetching) ==
    IF ShouldFetch(rs, sel, fetching)
    THEN LET r == Unwrap(selected_repo(rs, sel)) IN
         [fetching |-> fetching \cup {r.path},
          spawn |-> Some([path |-> r.path, key |-> Unwrap(r.github_repo),
                          pc |-> "start", msg |-> None])]
    ELSE [fetching |-> fetching, spawn |-> None]

\* ----------------------------------------------------------- github.rs cache
\* get_cached: the stored data when the entry is younger than CACHE_TTL.
get_cached_inclusive(cache, key) ==
    IF IsSome(cache[key]) /\ Unwrap(cache[key]).age <= CACHE_TTL
    THEN Some(Unwrap(cache[key]).data)
    ELSE None

get_cached(cache, key) ==
    IF IsSome(cache[key]) /\ Unwrap(cache[key]).age < CACHE_TTL
    THEN Some(Unwrap(cache[key]).data)
    ELSE None

\* An insert that keeps the entry a key already has.
set_cached_if_absent(cache, key, d) ==
    IF IsSome(cache[key]) THEN cache
    ELSE [cache EXCEPT ![key] = Some([data |-> d, age |-> 0])]

\* set_cached: insert or overwrite, stamped with the current time.
set_cached(cache, key, d) ==
    [cache EXCEPT ![key] = Some([data |-> d, age |-> 0])]

\* invalidate_cached: remove the entry of one key.
invalidate_cached(cache, key) ==
    [cache EXCEPT ![key] = None]

\* --------------------------------------------------------------- bookkeeping
\* Number of elements of the bag b that satisfy Test.
RECURSIVE SumOver(_, _)
SumOver(b, ts) ==
    IF ts = {} THEN 0
    ELSE LET t == CHOOSE x \in ts : TRUE IN b[t] + SumOver(b, ts \ {t})

\* Fetches of path p launched whose completion message update has not
\* processed yet.
FetchesOf(b, p) == SumOver(b, {t \in BagToSet(b) : t.path = p})

Outstanding(p) == FetchesOf(tasks, p)

OutstandingAll == BagCardinality(tasks)

\* tokio::spawn of the fetch task, when maybe_fetch decided to launch one.
Spawned(f) ==
    IF IsSome(f.spawn) THEN tasks (+) SetToBag({Unwrap(f.spawn)}) ELSE tasks

CanSpawn(f) == IsSome(f.spawn) => OutstandingAll < MaxOutstanding

\* The cache keys "owner/repo" (cache_key) of the repositories of the model.
Keys == {Unwrap(GithubRepoOf(p)) : p \in {q \in PathSet : IsSome(GithubRepoOf(q))}}

\* ------------------------------------------------------- repo.rs scan cache
\* A lookup that finds nothing.
repo_cache_never(cache, path) == FALSE

\* analyze_repo, the lookup: the entry of the path is younger than the TTL.
repo_cache_hit(cache, path) ==
    IsSome(cache[path]) /\ Unwrap(cache[path]).age < REPO_CACHE_TTL

\* analyze_repo, the insert after analyze_repo_uncached, stamped now.
repo_cache_insert(cache, path) == [cache EXCEPT ![path] = Some([age |-> 0])]

\* An invalidation that gives up without clearing, as when the lock fails.
invalidate_no_repo_caches(cache) == cache

\* invalidate_all_repo_caches: cache.clear().
invalidate_all_repo_caches(cache) == [q \in DOMAIN cache |-> None]

\* A scan task just spawned; forced records that ForceRefresh spawned it.
NewScanner(forced) ==
    [forced |-> forced, pc |-> "start", todo |-> {}, cur |-> None,
     done |-> {}, hits |-> {}]

\* ------------------------------------------------- repo.rs: strings and names
\* A string is the sequence of its characters; Ascii gives the code of each
\* character the model uses.
Ascii ==
    "-" :> 45 @@
    "." :> 46 @@
    "/" :> 47 @@
    ":" :> 58 @@
    "@" :> 64 @@
    "A" :> 65 @@
    "B" :> 66 @@
    "C" :> 67 @@
    "D" :> 68 @@
    "E" :> 69 @@
    "F" :> 70 @@
    "G" :> 71 @@
    "H" :> 72 @@
    "I" :> 73 @@
    "J" :> 74 @@
    "K" :> 75 @@
    "L" :> 76 @@
    "M" :> 77 @@
    "N" :> 78 @@
    "O" :> 79 @@
    "P" :> 80 @@
    "Q" :> 81 @@
    "R" :> 82 @@
    "S" :> 83 @@
    "T" :> 84 @@
    "U" :> 85 @@
    "V" :> 86 @@
    "W" :> 87 @@
    "X" :> 88 @@
    "Y" :> 89 @@
    "Z" :> 90 @@
    "_" :> 95 @@
    "a" :> 97 @@
    "b" :> 98 @@
    "c" :> 99 @@
    "d" :> 100 @@
    "e" :> 101 @@
    "f" :> 102 @@
    "g" :> 103 @@
    "h" :> 104 @@
    "i" :> 105 @@
    "j" :> 106 @@
    "k" :> 107 @@
    "l" :> 108 @@
    "m" :> 109 @@
    "n" :> 110 @@
    "o" :> 111 @@
    "p" :> 112 @@
    "q" :> 113 @@
    "r" :> 114 @@
    "s" :> 115 @@
    "t" :> 116 @@
    "u" :> 117 @@
    "v" :> 118 @@
    "w" :> 119 @@
    "x" :> 120 @@
    "y" :> 121 @@
    "z" :> 122


\* char::to_lowercase on ASCII letters; other characters are kept.
LowerChar(c) ==
    IF Ascii[c] >= 65 /\ Ascii[c] <= 90
    THEN CHOOSE d \in DOMAIN Ascii : Ascii[d] = Ascii[c] + 32
    ELSE c

\* str::to_lowercase
to_lowercase(str) == [i \in 1..Len(str) |-> LowerChar(str[i])]

\* str::cmp(a, b) is not Greater: the byte-wise lexicographic order.
RECURSIVE StrLeq(_, _)
StrLeq(a, b) ==
    IF a = <<>> THEN TRUE
    ELSE IF b = <<>> THEN FALSE
    ELSE IF Ascii[Head(a)] # Ascii[Head(b)] THEN Ascii[Head(a)] < Ascii[Head(b)]
    ELSE StrLeq(Tail(a), Tail(b))

\* str::starts_with
starts_with(str, prefix) ==
    /\ Len(str) >= Len(prefix)
    /\ SubSeq(str, 1, Len(prefix)) = prefix

\* str::strip_prefix, the rest on a match
strip_prefix(str, prefix) ==
    IF starts_with(str, prefix)
    THEN Some(SubSeq(str, Len(prefix) + 1, Len(str)))
    ELSE None

\* str::ends_with
ends_with(str, suffix) ==
    /\ Len(str) >= Len(suffix)
    /\ SubSeq(str, Len(str) - Len(suffix) + 1, Len(str)) = suffix

\* str::strip_suffix, the rest on a match
strip_suffix(str, suffix) ==
    IF ends_with(str, suffix)
    THEN Some(SubSeq(str, 1, Len(str) - Len(suffix)))
    ELSE None

\* Option::unwrap_or
unwrap_or(o, default) == IF IsSome(o) THEN Unwrap(o) ELSE default

\* ------------------------------------------------- repo.rs: parse_github_url
\* str::contains
contains(str, pat) ==
    \E i \in 1..(Len(str) - Len(pat) + 1) : SubSeq(str, i, i + Len(pat) - 1) = pat

\* str::splitn(n, c), collected: at most n parts, split from the left.
RECURSIVE splitn(_, _, _)
splitn(n, str, c) ==
    LET at == {i \in 1..Len(str) : str[i] = c}
        first == CHOOSE i \in at : \A j \in at : i <= j
    IN IF n = 1 \/ at = {} THEN <<str>>
       ELSE <<SubSeq(str, 1, first - 1)>>
            \o splitn(n - 1, SubSeq(str, first + 1, Len(str)), c)

\* str::rsplitn(n, c), collected: at most n parts, split from the right, the
\* last part of the string first.
RECURSIVE rsplitn(_, _, _)
rsplitn(n, str, c) ==
    LET at == {i \in 1..Len(str) : str[i] = c}
        last == CHOOSE i \in at : \A j \in at : i >= j
    IN IF n = 1 \/ at = {} THEN <<str>>
       ELSE <<SubSeq(str, last + 1, Len(str))>>
            \o rsplitn(n - 1, SubSeq(str, 1, last - 1), c)

SshPrefix == <<"g", "i", "t", "@", "g", "i", "t", "h", "u", "b", ".", "c", "o", "m", ":">>
DotGit == <<".", "g", "i", "t">>
GithubCom == <<"g", "i", "t", "h", "u", "b", ".", "c", "o", "m">>

\* parse_github_url, the SSH arm: Some(<<owner, repo>>) or None.
parse_ssh(url) ==
    IF IsSome(strip_prefix(url, SshPrefix))
    THEN LET rest0 == Unwrap(strip_prefix(url, SshPrefix))
             rest == unwrap_or(strip_suffix(rest0, DotGit), rest0)
             parts == splitn(2, rest, "/")
         IN IF Len(parts) = 2 THEN Some(<<parts[1], parts[2]>>) ELSE None
    ELSE None

\* parse_github_url, the HTTPS arm: Some(<<owner, repo>>) or None.
parse_https(url) ==
    IF contains(url, GithubCom)
    THEN LET u == unwrap_or(strip_suffix(url, DotGit), url)
             parts == rsplitn(3, u, "/")
         IN IF Len(parts) >= 2 THEN Some(<<parts[2], parts[1]>>) ELSE None
    ELSE None

\* parse_github_url with the SSH arm alone.
parse_github_url_ssh_only(url) == parse_ssh(url)

\* parse_github_url
parse_github_url(url) ==
    IF IsSome(parse_ssh(url)) THEN parse_ssh(url) ELSE parse_https(url)

\* ------------------------------------------------- repo.rs: get_repo_status
\* The git2::Status flags an entry of repo.statuses(None) can carry.
ModifiedFlags == {"WT_MODIFIED", "INDEX_MODIFIED", "WT_RENAMED", "INDEX_RENAMED"}
NewFlags == {"WT_NEW", "INDEX_NEW"}
DeletedFlags == {"WT_DELETED", "INDEX_DELETED"}

\* Status::intersects
intersects(s, flags) == s \cap flags # {}

\* The arm of the if / else-if chain an entry with status s takes, tested with
\* the new flags first.
arm_new_first(s) ==
    IF intersects(s, NewFlags) THEN "A"
    ELSE IF intersects(s, ModifiedFlags) THEN "M"
    ELSE IF intersects(s, DeletedFlags) THEN "D"
    ELSE "none"

\* The arm of the if / else-if chain an entry with status s takes.
arm(s) ==
    IF intersects(s, ModifiedFlags) THEN "M"
    ELSE IF intersects(s, NewFlags) THEN "A"
    ELSE IF intersects(s, DeletedFlags) THEN "D"
    ELSE "none"

\* entry.path().unwrap_or("?")
file_path(entry) == unwrap_or(entry.path, <<"?">>)

\* The loop over statuses.iter() from entry i on; acc holds the three
\* counters and changed_files.
RECURSIVE status_loop(_, _, _)
status_loop(entries, i, acc) ==
    IF i > Len(entries) THEN acc
    ELSE LET a == arm(entries[i].status)
             line == <<a, " ">> \o file_path(entries[i])
         IN status_loop(entries, i + 1,
              CASE a = "M" -> [acc EXCEPT !.modified = @ + 1,
                                          !.changed_files = Append(@, line)]
                [] a = "A" -> [acc EXCEPT !.added = @ + 1,
                                          !.changed_files = Append(@, line)]
                [] a = "D" -> [acc EXCEPT !.deleted = @ + 1,
                                          !.changed_files = Append(@, line)]
                [] OTHER -> acc)

\* get_repo_status; statuses is the result of repo.statuses(None).
get_repo_status(statuses) ==
    IF ~statuses.ok THEN [status |-> [kind |-> "Clean"], changed_files |-> <<>>]
    ELSE LET acc == status_loop(statuses.entries, 1,
                        [modified |-> 0, added |-> 0, deleted |-> 0,
                         changed_files |-> <<>>])
         IN [status |->
                IF acc.modified = 0 /\ acc.added = 0 /\ acc.deleted = 0
                THEN [kind |-> "Clean"]
                ELSE [kind |-> "Dirty", modified |-> acc.modified,
                      added |-> acc.added, deleted |-> acc.deleted],
             changed_files |-> acc.changed_files]

\* ------------------------------------------------- repo.rs: the directory walk
SKIP_DIRS ==
    {<<"n", "o", "d", "e", "_", "m", "o", "d", "u", "l", "e", "s">>,
     <<"t", "a", "r", "g", "e", "t">>,
     <<"b", "u", "i", "l", "d">>,
     <<"d", "i", "s", "t">>,
     <<"o", "u", "t">>,
     <<"v", "e", "n", "d", "o", "r">>,
     <<"v", "e", "n", "v">>,
     <<".", "v", "e", "n", "v">>,
     <<"_", "_", "p", "y", "c", "a", "c", "h", "e", "_", "_">>,
     <<"P", "o", "d", "s">>,
     <<"D", "e", "r", "i", "v", "e", "d", "D", "a", "t", "a">>,
     <<".", "g", "r", "a", "d", "l", "e">>,
     <<".", "c", "a", "r", "g", "o">>,
     <<".", "r", "u", "s", "t", "u", "p">>,
     <<"L", "i", "b", "r", "a", "r", "y">>,
     <<"A", "p", "p", "l", "i", "c", "a", "t", "i", "o", "n", "s">>,
     <<"M", "u", "s", "i", "c">>,
     <<"M", "o", "v", "i", "e", "s">>,
     <<"P", "i", "c", "t", "u", "r", "e", "s">>,
     <<"P", "h", "o", "t", "o", "s">>,
     <<".", "T", "r", "a", "s", "h">>}

\* The directories of the file system the walk runs on, each the sequence of
\* the names from the top directory down, and what read_dir lists in each,
\* in the order the system lists it:
\*   top/out/d   top/g/ra   top/g/Rb   top/.h   top/m/s
Dir ==
    [top    |-> <<>>,
     out    |-> <<<<"o", "u", "t">>>>,
     dep    |-> <<<<"o", "u", "t">>, <<"d">>>>,
     group  |-> <<<<"g">>>>,
     ra     |-> <<<<"g">>, <<"r", "a">>>>,
     rb     |-> <<<<"g">>, <<"R", "b">>>>,
     hidden |-> <<<<".", "h">>>>,
     mono   |-> <<<<"m">>>>,
     sub    |-> <<<<"m">>, <<"s">>>>]

Dirs == {Dir[f] : f \in DOMAIN Dir}

\* read_dir(dir), the directories among the entries
Entries(dir) ==
    CASE dir = Dir.top -> <<Dir.out, Dir.mono, Dir.group, Dir.hidden>>
      [] dir = Dir.out -> <<Dir.dep>>
      [] dir = Dir.group -> <<Dir.rb, Dir.ra>>
      [] dir = Dir.mono -> <<Dir.sub>>
      [] OTHER -> <<>>

\* Path::file_name: the last component; the top directory is called "x".
FileName(dir) == IF dir = <<>> THEN <<"x">> ELSE dir[Len(dir)]

\* What a directory holds under the name .git: nothing ("none"), a
\* repository git2 can open ("repo"), or an entry Repository::open fails on
\* ("broken").
GitKinds == {"none", "repo", "broken"}

\* is_git_repo: the .git entry exists.
is_git_repo(git, dir) == git[dir] # "none"

\* analyze_repo taking every .git entry for a repository.
analyze_any(git, dir) ==
    Some([name |-> FileName(dir), path |-> dir])

\* analyze_repo: the RepoInfo (its name and path) when the repository opens,
\* from the cache or from analyze_repo_uncached alike.
analyze_repo(git, dir) ==
    IF git[dir] = "repo"
    THEN Some([name |-> FileName(dir), path |-> dir])
    ELSE None

\* A walk that skips the listed names but not the hidden ones.
skip_listed(dir_name) == dir_name \in SKIP_DIRS

\* scan_recursive, the test on a directory's name.
skip(dir_name) == starts_with(dir_name, <<".">>) \/ dir_name \in SKIP_DIRS

\* A walk that stops at the directories that are repositories.
descend_outside_repos(git, dir) == ~is_git_repo(git, dir)

\* scan_recursive, the descent: every directory that is not skipped is
\* descended into, a repository or not.
descend(git, dir) == TRUE

\* scan_recursive over the entries es from the i-th on: the repositories
\* pushed, in the order of the walk.
RECURSIVE scan_entries(_, _, _)
scan_entries(git, es, i) ==
    IF i > Len(es) THEN <<>>
    ELSE (IF skip(FileName(es[i])) THEN <<>>
          ELSE (IF is_git_repo(git, es[i]) /\ IsSome(analyze_repo(git, es[i]))
                THEN <<Unwrap(analyze_repo(git, es[i]))>> ELSE <<>>)
               \o (IF descend(git, es[i])
                   THEN scan_entries(git, Entries(es[i]), 1) ELSE <<>>))
         \o scan_entries(git, es, i + 1)

scan_recursive(git, dir) == scan_entries(git, Entries(dir), 1)

\* A sort that compares the names as they are.
raw_key(name) == name

\* The key of the sort: a.name.to_lowercase()
sort_key(name) == to_lowercase(name)

\* r inserted into the sorted list rs behind every entry that is not greater
\* (sort_by is stable).
RECURSIVE Inserted(_, _)
Inserted(rs, r) ==
    IF rs = <<>> THEN <<r>>
    ELSE IF StrLeq(sort_key(Head(rs).name), sort_key(r.name))
         THEN <<Head(rs)>> \o Inserted(Tail(rs), r)
         ELSE <<r>> \o rs

\* repos.sort_by(|a, b| a.name.to_lowercase().cmp(&b.name.to_lowercase()))
RECURSIVE sort_by(_)
sort_by(rs) ==
    IF rs = <<>> THEN <<>>
    ELSE Inserted(sort_by(SubSeq(rs, 1, Len(rs) - 1)), rs[Len(rs)])

\* scan_directory without the test on the starting directory.
scan_directory_walk_only(git, root) ==
    sort_by(scan_entries(git, Entries(root), 1))

\* scan_directory
scan_directory(git, root) ==
    IF is_git_repo(git, root)
    THEN (IF IsSome(analyze_repo(git, root))
          THEN <<Unwrap(analyze_repo(git, root))>> ELSE <<>>)
    ELSE sort_by(scan_recursive(git, root))

\* ---------------------------------------------------------------------- Init
\* App::new, then main spawning the initial scan, the repositories of t
\* existing below scan_path; detail: the scan tasks are followed.
StartedWith(t, detail, c) ==
    /\ call = c
    /\ tree = t
    /\ scan_detail = detail
    /\ REPO_CACHE = [q \in PathSet |-> None]
    /\ scanners = (IF detail THEN SetToBag({NewScanner(FALSE)}) ELSE EmptyBag)
    /\ repos = <<>>
    /\ selected = None
    /\ state = "Scanning"
    /\ active_pane = "RepoList"
    /\ detail_tab = "Changes"
    /\ detail_scroll = 0
    /\ should_quit = FALSE
    /\ tab_bar_area = ZeroRect
    /\ github_fetching = {}
    /\ CACHE = [k \in Keys |-> None]
    /\ tasks = EmptyBag
    /\ scans = 1
    /\ received = [type |-> "None"]

Started(t, detail) == StartedWith(t, detail, NoCall)

\* One GitHub clone and one repository without a GitHub remote.
Init == Started({"a", "b"}, FALSE)

\* Two GitHub clones, hence two cache keys.
InitCache == Started({"a", "c"}, FALSE)

\* One GitHub clone, the scanner followed through its cache lookups.
InitScan == Started({"a"}, TRUE)

\* The detail pane entered by SwitchPane right after the start and scrolled
\* down by MoveDown, not at all or until one line short of the largest offset.
InitScroll ==
    /\ tree = {"a", "b"}
    /\ repos = <<>>
    /\ selected = None
    /\ state = "Scanning"
    /\ active_pane = "Detail"
    /\ detail_tab = "Changes"
    /\ detail_scroll \in {0, U16_MAX - 1}
    /\ should_quit = FALSE
    /\ tab_bar_area = ZeroRect
    /\ github_fetching = {}
    /\ CACHE = [k \in Keys |-> None]
    /\ tasks = EmptyBag
    /\ scans = 1
    /\ received = [type |-> "None"]
    /\ scan_detail = FALSE
    /\ REPO_CACHE = [q \in PathSet |-> None]
    /\ scanners = EmptyBag
    /\ call = NoCall

\* ui::draw runs before every update: draw_detail_pane stores the tab bar's
\* rectangle when a repository is selected and leaves the field alone
\* otherwise.
Drawn == IF IsSome(selected_repo(repos, selected)) THEN TabBarRect ELSE tab_bar_area

\* A loop that goes on drawing and receiving whatever the flag says.
LoopNoBreak ==
    /\ tree' = tree
    /\ scan_detail' = scan_detail
    /\ call' = call
    /\ tab_bar_area' = Drawn

\* What every control-loop step shares: the loop is running and the frame is
\* drawn before update is handed the message.
Loop ==
    /\ ~should_quit
    /\ tree' = tree
    /\ scan_detail' = scan_detail
    /\ call' = call
    /\ tab_bar_area' = Drawn

\* A message typed or clicked by the user is processed.
Input ==
    /\ Loop
    /\ received' = received

\* The selection changes to index i (MoveUp, MoveDown, list Click): scroll and
\* tab are reset and the fetch-trigger check runs on the new selection.
SelectIndex(i) ==
    LET f == maybe_fetch_selected_github(repos, Some(i), github_fetching) IN
    /\ CanSpawn(f)
    /\ selected' = Some(i)
    /\ detail_scroll' = 0
    /\ detail_tab' = "Changes"
    /\ github_fetching' = f.fetching
    /\ tasks' = Spawned(f)

\* u16::saturating_add(1) that wraps to 0 past the largest value.
wrapping_add(x) == (x + 1) % (U16_MAX + 1)

\* u16::saturating_add(1) and u16::saturating_sub(1) on detail_scroll.
saturating_add(x) == IF x >= U16_MAX THEN U16_MAX ELSE x + 1

saturating_sub(x) == IF x = 0 THEN 0 ELSE x - 1

\* The scroll offsets explored: the MaxScroll + 1 smallest and the
\* MaxScroll + 2 largest of the u16 range.
ScrollExplored(x) == x <= MaxScroll \/ x >= U16_MAX - MaxScroll - 1

\* Index MoveUp selects.
UpIndex(sel, n) ==
    IF IsSome(sel) THEN (IF Unwrap(sel) = 0 THEN n - 1 ELSE Unwrap(sel) - 1)
    ELSE 0

\* MoveDown stopping at the last row instead of wrapping.
DownIndexNoWrap(sel, n) ==
    IF IsSome(sel) THEN (IF Unwrap(sel) >= n - 1 THEN n - 1 ELSE Unwrap(sel) + 1)
    ELSE 0

\* Index MoveDown selects.
DownIndex(sel, n) ==
    IF IsSome(sel) THEN (IF Unwrap(sel) >= n - 1 THEN 0 ELSE Unwrap(sel) + 1)
    ELSE 0

\* -------------------------------------------------------- App::update arms
Quit ==
    /\ Input
    /\ should_quit' = TRUE
    /\ UNCHANGED <<repos, selected, state, active_pane, detail_tab,
                   detail_scroll, github_fetching, CACHE, tasks, scans, REPO_CACHE,
                   scanners>>

MoveUp ==
    /\ Input
    /\ IF active_pane = "RepoList"
       THEN IF repos = <<>>
            THEN UNCHANGED <<selected, detail_scroll, detail_tab,
                             github_fetching, tasks>>
            ELSE SelectIndex(UpIndex(selected, Len(repos)))
       ELSE /\ ScrollExplored(saturating_sub(detail_scroll))
            /\ detail_scroll' = saturating_sub(detail_scroll)
            /\ UNCHANGED <<selected, detail_tab, github_fetching, tasks>>
    /\ UNCHANGED <<repos, state, active_pane, should_quit, CACHE, scans, REPO_CACHE,
                   scanners>>

MoveDown ==
    /\ Input
    /\ IF active_pane = "RepoList"
       THEN IF repos = <<>>
            THEN UNCHANGED <<selected, detail_scroll, detail_tab,
                             github_fetching, tasks>>
            ELSE SelectIndex(DownIndex(selected, Len(repos)))
       ELSE /\ ScrollExplored(saturating_add(detail_scroll))
            /\ detail_scroll' = saturating_add(detail_scroll)
            /\ UNCHANGED <<selected, detail_tab, github_fetching, tasks>>
    /\ UNCHANGED <<repos, state, active_pane, should_quit, CACHE, scans, REPO_CACHE,
                   scanners>>

\* A pane switch that always lands in the detail pane.
ToDetailPane(pane) == "Detail"

\* The pane SwitchPane makes active.
OtherPane(pane) == IF pane = "RepoList" THEN "Detail" ELSE "RepoList"

SwitchPane ==
    LET f == maybe_fetch_selected_github(repos, selected, github_fetching) IN
    /\ Input
    /\ CanSpawn(f)
    /\ active_pane' = OtherPane(active_pane)
    /\ detail_scroll' = 0
    /\ github_fetching' = f.fetching
    /\ tasks' = Spawned(f)
    /\ UNCHANGED <<repos, selected, state, detail_tab, should_quit, CACHE, scans, REPO_CACHE,
                   scanners>>

FocusList ==
    /\ Input
    /\ active_pane' = "RepoList"
    /\ detail_scroll' = 0
    /\ UNCHANGED <<repos, selected, state, detail_tab, should_quit,
                   github_fetching, CACHE, tasks, scans, REPO_CACHE,
                   scanners>>

NextTab ==
    /\ Input
    /\ detail_tab' = TabNext(detail_tab)
    /\ detail_scroll' = 0
    /\ UNCHANGED <<repos, selected, state, active_pane, should_quit,
                   github_fetching, CACHE, tasks, scans, REPO_CACHE,
                   scanners>>

PrevTab ==
    /\ Input
    /\ detail_tab' = TabPrev(detail_tab)
    /\ detail_scroll' = 0
    /\ UNCHANGED <<repos, selected, state, active_pane, should_quit,
                   github_fetching, CACHE, tasks, scans, REPO_CACHE,
                   scanners>>

\* Click { column, row }: the repository list first, then the tab bar, then
\* the click zones (opening a link changes nothing in the dashboard).
Click ==
    \E cell \in ClickCells : LET column == cell[1] row == cell[2] IN
        /\ Input
        /\ IF InRect(ListArea, column, row)
           THEN IF row >= ListArea.y + 2 /\ row - (ListArea.y + 2) < Len(repos)
                THEN /\ SelectIndex(row - (ListArea.y + 2))
                     /\ active_pane' = "RepoList"
                ELSE UNCHANGED <<selected, detail_scroll, detail_tab,
                                 active_pane, github_fetching, tasks>>
           ELSE IF /\ row = Drawn.y
                   /\ column >= Drawn.x
                   /\ column < Drawn.x + Drawn.width
                THEN /\ detail_tab' = TabAt(column - Drawn.x)
                     /\ detail_scroll' = 0
                     /\ UNCHANGED <<selected, active_pane, github_fetching, tasks>>
                ELSE UNCHANGED <<selected, detail_scroll, detail_tab,
                                 active_pane, github_fetching, tasks>>
        /\ UNCHANGED <<repos, state, should_quit, CACHE, scans, REPO_CACHE,
                   scanners>>

\* RetryGitHub / ForceRetryGitHub on the selected repository: its error and
\* data are cleared ...
RetryRepos(rs, sel) ==
    IF IsSome(selected_repo(rs, sel))
    THEN [rs EXCEPT ![Unwrap(sel) + 1].github_error = None,
                    ![Unwrap(sel) + 1].github_data = None]
    ELSE rs

\* ... and its path leaves the in-flight set.
RetryFetching(rs, sel, fetching) ==
    IF IsSome(selected_repo(rs, sel))
    THEN fetching \ {Unwrap(selected_repo(rs, sel)).path}
    ELSE fetching

\* A force-retry that empties the whole cache.
ForceRetryCacheAll(rs, sel, cache) == [k \in DOMAIN cache |-> None]

\* ForceRetryGitHub first drops the cache entry of the selected repository.
ForceRetryCache(rs, sel, cache) ==
    LET r == selected_repo(rs, sel) IN
    IF IsSome(r) /\ IsSome(Unwrap(r).github_repo)
    THEN invalidate_cached(cache, Unwrap(Unwrap(r).github_repo))
    ELSE cache

\* The body shared by the two retry arms; `force` tells them apart.
Retry(force) ==
    LET rs == RetryRepos(repos, selected)
        fetching == RetryFetching(repos, selected, github_fetching)
        f == maybe_fetch_selected_github(rs, selected, fetching)
    IN
    /\ CanSpawn(f)
    /\ repos' = rs
    /\ CACHE' = (IF force THEN ForceRetryCache(repos, selected, CACHE) ELSE CACHE)
    /\ github_fetching' = f.fetching
    /\ tasks' = Spawned(f)
    /\ UNCHANGED <<selected, state, active_pane, detail_tab, detail_scroll,
                   should_quit, scans, REPO_CACHE,
                   scanners>>

RetryGitHub ==
    /\ Input
    /\ Retry(FALSE)

ForceRetryGitHub ==
    /\ Input
    /\ Retry(TRUE)

\* A rescan that empties the scan cache whether forced or not.
RescanCacheAlways(force, cache) == invalidate_all_repo_caches(cache)

\* The scan cache after Refresh (left alone) or ForceRefresh (emptied) in the
\* list pane.
RescanCache(force, cache) ==
    IF force THEN invalidate_all_repo_caches(cache) ELSE cache

\* A rescan that leaves the selection where it is.
RescanSelectionKept(force) ==
    /\ scans < MaxScans
    /\ REPO_CACHE' = RescanCache(force, REPO_CACHE)
    /\ scanners' = (IF scan_detail THEN scanners (+) SetToBag({NewScanner(force)})
                    ELSE scanners)
    /\ state' = "Scanning"
    /\ repos' = <<>>
    /\ selected' = selected
    /\ detail_scroll' = 0
    /\ scans' = scans + 1
    /\ UNCHANGED <<active_pane, detail_tab, should_quit, github_fetching,
                   CACHE, tasks>>

\* Refresh / ForceRefresh in the list pane: the list is dropped and a scan is
\* spawned that will send one ReposScanned.  ForceRefresh (force) empties
\* repo.rs REPO_CACHE first.
Rescan(force) ==
    /\ scans < MaxScans
    /\ REPO_CACHE' = RescanCache(force, REPO_CACHE)
    /\ scanners' = (IF scan_detail THEN scanners (+) SetToBag({NewScanner(force)})
                    ELSE scanners)
    /\ state' = "Scanning"
    /\ repos' = <<>>
    /\ selected' = None
    /\ detail_scroll' = 0
    /\ scans' = scans + 1
    /\ UNCHANGED <<active_pane, detail_tab, should_quit, github_fetching,
                   CACHE, tasks>>

\* A refresh that rescans whatever pane is active.
RefreshArmRescan(pane) == "rescan"

\* The arm Refresh and ForceRefresh take: the retry of the selected
\* repository in the detail pane, the rescan in the list pane.
RefreshArm(pane) == IF pane = "Detail" THEN "retry" ELSE "rescan"

Refresh ==
    /\ Input
    /\ IF RefreshArm(active_pane) = "retry" THEN Retry(FALSE) ELSE Rescan(FALSE)

ForceRefresh ==
    /\ Input
    /\ IF RefreshArm(active_pane) = "retry" THEN Retry(TRUE) ELSE Rescan(TRUE)

Tick ==
    /\ Input
    /\ UNCHANGED <<repos, selected, state, active_pane, detail_tab,
                   detail_scroll, should_quit, github_fetching, CACHE,
                   tasks, scans, REPO_CACHE,
                   scanners>>

\* ---------------------------------------------- results taken from the channel
\* ReposScanned leaving the selection alone.
ScannedSelectionKept(list, sel) == sel

\* Selection after ReposScanned(list).
ScannedSelection(list, sel) == IF list # <<>> THEN Some(0) ELSE sel

\* The scan tasks that have sent their list, not yet received.
ScansSent == {sc \in BagToSet(scanners) : sc.pc = "sent"}

\* ReposScanned(list): the list is the one a followed scan task has sent, or,
\* the scans being only counted, any list a scan of the tree can return.
ReposScanned ==
    \E list \in ScanLists(tree) :
        /\ scans > 0
        /\ IF scan_detail
           THEN \E sc \in ScansSent :
                   /\ list = ListOf(sc.done, 1)
                   /\ scanners' = scanners (-) SetToBag({sc})
           ELSE scanners' = scanners
        /\ REPO_CACHE' = REPO_CACHE
        /\ Loop
        /\ received' = [type |-> "ReposScanned"]
        /\ scans' = scans - 1
        /\ repos' = list
        /\ state' = "Ready"
        /\ github_fetching' = {}
        /\ selected' = ScannedSelection(list, selected)
        /\ UNCHANGED <<active_pane, detail_tab, detail_scroll, should_quit,
                       CACHE, tasks>>

\* The data stored in every repository of the list, whatever its path.
DataReceivedEverywhere(rs, path, data) ==
    [i \in 1..Len(rs) |-> [rs[i] EXCEPT !.github_data = Some(data),
                                        !.github_error = None]]

\* The list after GitHubDataReceived { path, data }.
DataReceivedRepos(rs, path, data) ==
    IF FindByPath(rs, path) # 0
    THEN [rs EXCEPT ![FindByPath(rs, path)].github_data = Some(data),
                    ![FindByPath(rs, path)].github_error = None]
    ELSE rs

\* An error for an unknown path entered as a new repository.
ErrorReposInserted(rs, path, error) ==
    IF FindByPath(rs, path) # 0
    THEN [rs EXCEPT ![FindByPath(rs, path)].github_error = Some(error)]
    ELSE Append(rs, [RepoInfo(path) EXCEPT !.github_error = Some(error)])

\* An error that takes the place of the data.
ErrorReposDataCleared(rs, path, error) ==
    IF FindByPath(rs, path) # 0
    THEN [rs EXCEPT ![FindByPath(rs, path)].github_error = Some(error),
                    ![FindByPath(rs, path)].github_data = None]
    ELSE rs

\* An error message that is dropped.
ErrorReposDropped(rs, path, error) == rs

\* The list after GitHubError { path, error }.
ErrorRepos(rs, path, error) ==
    IF FindByPath(rs, path) # 0
    THEN [rs EXCEPT ![FindByPath(rs, path)].github_error = Some(error)]
    ELSE rs

\* The in-flight set after a completion message: neither arm touches it.
CompletionFetching(fetching, path) == fetching

\* The messages sent by fetch tasks and not yet received.
Sent == {t \in BagToSet(tasks) : t.pc = "sent"}

GitHubDataReceived ==
    \E t \in Sent :
        /\ Unwrap(t.msg).type = "GitHubDataReceived"
        /\ Loop
        /\ received' = [type |-> Unwrap(t.msg).type, path |-> t.path]
        /\ tasks' = tasks (-) SetToBag({t})
        /\ repos' = DataReceivedRepos(repos, Unwrap(t.msg).path, Unwrap(t.msg).data)
        /\ github_fetching' = CompletionFetching(github_fetching, Unwrap(t.msg).path)
        /\ UNCHANGED <<selected, state, active_pane, detail_tab, detail_scroll,
                       should_quit, CACHE, scans, REPO_CACHE,
                   scanners>>

GitHubError ==
    \E t \in Sent :
        /\ Unwrap(t.msg).type = "GitHubError"
        /\ Loop
        /\ received' = [type |-> Unwrap(t.msg).type, path |-> t.path]
        /\ tasks' = tasks (-) SetToBag({t})
        /\ repos' = ErrorRepos(repos, Unwrap(t.msg).path, Unwrap(t.msg).error)
        /\ github_fetching' = CompletionFetching(github_fetching, Unwrap(t.msg).path)
        /\ UNCHANGED <<selected, state, active_pane, detail_tab, detail_scroll,
                       should_quit, CACHE, scans, REPO_CACHE,
                   scanners>>

\* ------------------------------------------------------------- worker tasks
worker_unchanged == <<tree, repos, selected, state, active_pane, detail_tab,
                      detail_scroll, should_quit, tab_bar_area,
                      github_fetching, scans, received, scan_detail, call>>

\* A task that leaves two records behind when it moves on.
StepTwice(t, pc, m) ==
    tasks' = (tasks (-) SetToBag({t}))
             (+) SetToBag({[t EXCEPT !.pc = pc, !.msg = m]})
             (+) SetToBag({[t EXCEPT !.pc = pc, !.msg = m]})

\* Task t moves on: to the network, or to having sent its one message m.
Step(t, pc, m) ==
    tasks' = (tasks (-) SetToBag({t}))
             (+) SetToBag({[t EXCEPT !.pc = pc, !.msg = m]})

\* spawn_github_fetch: GitHubClient::new fails and the error is sent.
FetchClientError ==
    \E t \in BagToSet(tasks), e \in ErrVals :
        /\ ~should_quit
        /\ t.pc = "start"
        /\ Step(t, "sent", Some([type |-> "GitHubError", path |-> t.path,
                                 error |-> e]))
        /\ UNCHANGED CACHE
        /\ UNCHANGED <<worker_unchanged, REPO_CACHE, scanners>>

\* fetch_repo_data, the cache check: a hit returns the stored data, which is
\* sent; a miss goes on to the network.
FetchCacheCheck ==
    \E t \in BagToSet(tasks) :
        /\ ~should_quit
        /\ t.pc = "start"
        /\ IF IsSome(get_cached(CACHE, t.key))
           THEN Step(t, "sent", Some([type |-> "GitHubDataReceived",
                                      path |-> t.path,
                                      data |-> Unwrap(get_cached(CACHE, t.key))]))
           ELSE Step(t, "net", None)
        /\ UNCHANGED CACHE
        /\ UNCHANGED <<worker_unchanged, REPO_CACHE, scanners>>

\* fetch_repo_data, both requests answered: the result is cached and sent.
FetchNetOk ==
    \E t \in BagToSet(tasks), d \in DataVals :
        /\ ~should_quit
        /\ t.pc = "net"
        /\ CACHE' = set_cached(CACHE, t.key, d)
        /\ Step(t, "sent", Some([type |-> "GitHubDataReceived", path |-> t.path,
                                 data |-> d]))
        /\ UNCHANGED <<worker_unchanged, REPO_CACHE, scanners>>

\* fetch_repo_data, a request fails: the error is sent, nothing is cached.
FetchNetError ==
    \E t \in BagToSet(tasks), e \in ErrVals :
        /\ ~should_quit
        /\ t.pc = "net"
        /\ Step(t, "sent", Some([type |-> "GitHubError", path |-> t.path,
                                 error |-> e]))
        /\ UNCHANGED CACHE
        /\ UNCHANGED <<worker_unchanged, REPO_CACHE, scanners>>

\* ------------------------------------------------------------- scan tasks
\* Scan task sc moves on to the record to.
ScanStep(sc, to) ==
    scanners' = (scanners (-) SetToBag({sc})) (+) SetToBag({to})

\* scan_recursive reads the directories: the repositories found are those of
\* the tree that exist at that moment.
ScanWalk ==
    \E sc \in BagToSet(scanners), present \in SUBSET tree :
        /\ ~should_quit
        /\ sc.pc = "start"
        /\ ScanStep(sc, [sc EXCEPT !.pc = "walk", !.todo = present])
        /\ UNCHANGED <<worker_unchanged, CACHE, tasks, REPO_CACHE>>

\* analyze_repo on one repository found, the cache lookup: a hit takes the
\* cached info, a miss goes on to analyze_repo_uncached.
ScanLookup ==
    \E sc \in BagToSet(scanners) :
        /\ ~should_quit
        /\ sc.pc = "walk"
        /\ \E path \in sc.todo :
              IF repo_cache_hit(REPO_CACHE, path)
              THEN ScanStep(sc, [sc EXCEPT !.todo = @ \ {path},
                                           !.done = @ \cup {path},
                                           !.hits = @ \cup {path}])
              ELSE ScanStep(sc, [sc EXCEPT !.todo = @ \ {path},
                                           !.pc = "analysing",
                                           !.cur = Some(path)])
        /\ UNCHANGED <<worker_unchanged, CACHE, tasks, REPO_CACHE>>

\* analyze_repo, analyze_repo_uncached has returned: the info is cached.
ScanAnalysed ==
    \E sc \in BagToSet(scanners) :
        /\ ~should_quit
        /\ sc.pc = "analysing"
        /\ REPO_CACHE' = repo_cache_insert(REPO_CACHE, Unwrap(sc.cur))
        /\ ScanStep(sc, [sc EXCEPT !.pc = "walk", !.cur = None,
                                  !.done = @ \cup {Unwrap(sc.cur)}])
        /\ UNCHANGED <<worker_unchanged, CACHE, tasks>>

\* scan_directory has returned: the sorted list is sent as ReposScanned.
ScanSend ==
    \E sc \in BagToSet(scanners) :
        /\ ~should_quit
        /\ sc.pc = "walk"
        /\ sc.todo = {}
        /\ ScanStep(sc, [sc EXCEPT !.pc = "sent"])
        /\ UNCHANGED <<worker_unchanged, CACHE, tasks, REPO_CACHE>>

\* An age grown by TimeStep; ages past CACHE_TTL are all alike to get_cached
\* and are kept at CACHE_TTL.
Older(age) == IF age + TimeStep >= CACHE_TTL THEN CACHE_TTL ELSE age + TimeStep

\* The same for the scan cache and REPO_CACHE_TTL.
OlderScan(age) ==
    IF age + TimeStep >= REPO_CACHE_TTL THEN REPO_CACHE_TTL ELSE age + TimeStep

\* Time passes: every entry of both caches grows older.
AdvanceTime ==
    /\ ~should_quit
    /\ \/ \E k \in Keys : IsSome(CACHE[k]) /\ Unwrap(CACHE[k]).age < CACHE_TTL
       \/ \E q \in PathSet : repo_cache_hit(REPO_CACHE, q)
    /\ CACHE' = [k \in Keys |->
                    IF IsSome(CACHE[k])
                    THEN Some([Unwrap(CACHE[k]) EXCEPT !.age = Older(@)])
                    ELSE None]
    /\ REPO_CACHE' = [q \in PathSet |->
                         IF IsSome(REPO_CACHE[q])
                         THEN Some([age |-> OlderScan(Unwrap(REPO_CACHE[q]).age)])
                         ELSE None]
    /\ UNCHANGED <<worker_unchanged, tasks, scanners>>

Next ==
    \/ Quit
    \/ MoveUp
    \/ MoveDown
    \/ SwitchPane
    \/ FocusList
    \/ NextTab
    \/ PrevTab
    \/ Click
    \/ RetryGitHub
    \/ ForceRetryGitHub
    \/ Refresh
    \/ ForceRefresh
    \/ Tick
    \/ ReposScanned
    \/ GitHubDataReceived
    \/ GitHubError
    \/ FetchClientError
    \/ FetchCacheCheck
    \/ FetchNetOk
    \/ FetchNetError
    \/ AdvanceTime

Spec == Init /\ [][Next]_vars

\* The fetcher and its cache with two GitHub repositories: selection by
\* MoveDown, the retries, and the results of the one scan and of the fetches.
NextCache ==
    \/ MoveDown
    \/ RetryGitHub
    \/ ForceRetryGitHub
    \/ ReposScanned
    \/ GitHubDataReceived
    \/ GitHubError
    \/ FetchClientError
    \/ FetchCacheCheck
    \/ FetchNetOk
    \/ FetchNetError
    \/ AdvanceTime

SpecCache == InitCache /\ [][NextCache]_vars

\* Scrolling at both ends of the u16 range, around the one scan and the
\* fetches a pane switch launches.
NextScroll ==
    \/ MoveUp
    \/ MoveDown
    \/ SwitchPane
    \/ FocusList
    \/ NextTab
    \/ ReposScanned
    \/ GitHubDataReceived
    \/ GitHubError
    \/ FetchClientError
    \/ FetchCacheCheck
    \/ FetchNetOk
    \/ FetchNetError

SpecScroll == InitScroll /\ [][NextScroll]_vars

\* The total counts the issues and pulls endpoints report (total_count, or
\* the number of items of the page): u64 values, converted to usize, which
\* has the same width on the 64-bit targets the program is built for.
Totals == {0, 3, 5, MaxTotal}

\* Subtraction of machine integers with no care for the sign.
usize_sub(a, b) == a - b

\* usize::saturating_sub
usize_saturating_sub(a, b) == IF a < b THEN 0 ELSE a - b

\* The counts of the GitHubData built from the two totals (the recent items
\* are left out).
GitHubData(total_issues, total_prs) ==
    [open_issues |-> usize_saturating_sub(total_issues, total_prs),
     open_prs |-> total_prs]

\* fetch_repo_data, both pages received: the totals are taken from them.
FetchAnswered ==
    \E t \in BagToSet(tasks), i \in Totals, p \in Totals :
        /\ ~should_quit
        /\ t.pc = "net"
        /\ Step(t, "totals", Some([type |-> "Totals", total_issues |-> i,
                                   total_prs |-> p]))
        /\ UNCHANGED CACHE
        /\ UNCHANGED <<worker_unchanged, REPO_CACHE, scanners>>

\* fetch_repo_data, the rest: the data is built from the totals, cached and
\* returned, and the task sends it.
FetchCounted ==
    \E t \in BagToSet(tasks) :
        /\ ~should_quit
        /\ t.pc = "totals"
        /\ CACHE' = set_cached(CACHE, t.key,
                               GitHubData(Unwrap(t.msg).total_issues,
                                          Unwrap(t.msg).total_prs))
        /\ Step(t, "sent",
                Some([type |-> "GitHubDataReceived", path |-> t.path,
                      data |-> GitHubData(Unwrap(t.msg).total_issues,
                                          Unwrap(t.msg).total_prs)]))
        /\ UNCHANGED <<worker_unchanged, REPO_CACHE, scanners>>

\* The fetcher with the counts of its data: one repository, its fetches
\* launched by the scan result and by retries, the two endpoints answering
\* with any of the totals.
NextCount ==
    \/ ReposScanned
    \/ RetryGitHub
    \/ FetchCacheCheck
    \/ FetchAnswered
    \/ FetchCounted
    \/ GitHubDataReceived

InitCount == Started({"a"}, FALSE)

SpecCount == InitCount /\ [][NextCount]_vars

\* A short while passes: the entries of both caches grow older by a Moment,
\* so that an entry is seen at ages inside its time to live as well.
AdvanceMoment ==
    /\ ~should_quit
    /\ \/ \E k \in Keys : IsSome(CACHE[k]) /\ Unwrap(CACHE[k]).age < CACHE_TTL
       \/ \E q \in PathSet : repo_cache_hit(REPO_CACHE, q)
    /\ CACHE' = [k \in Keys |->
                    IF IsSome(CACHE[k])
                    THEN Some([Unwrap(CACHE[k]) EXCEPT
                                  !.age = IF @ + Moment >= CACHE_TTL
                                          THEN CACHE_TTL ELSE @ + Moment])
                    ELSE None]
    /\ REPO_CACHE' = [q \in PathSet |->
                         IF IsSome(REPO_CACHE[q])
                         THEN Some([age |->
                                 IF Unwrap(REPO_CACHE[q]).age + Moment >= REPO_CACHE_TTL
                                 THEN REPO_CACHE_TTL
                                 ELSE Unwrap(REPO_CACHE[q]).age + Moment])
                         ELSE None]
    /\ UNCHANGED <<worker_unchanged, tasks, scanners>>

\* The fetcher and its cache over time: fetches are launched by the scan
\* result and by retries, run to their results, and the clock moves in short
\* steps between them.
NextFetch ==
    \/ RetryGitHub
    \/ ReposScanned
    \/ GitHubDataReceived
    \/ GitHubError
    \/ FetchClientError
    \/ FetchCacheCheck
    \/ FetchNetOk
    \/ FetchNetError
    \/ AdvanceMoment

SpecFetch == InitCache /\ [][NextFetch]_vars

\* The fetch tasks run by the runtime: the selection launches them, every
\* task that can take a step is scheduled in the end (tokio::spawn) and the
\* network answers in the end, and the loop receives what they send.
NextLive ==
    \/ MoveDown
    \/ SwitchPane
    \/ ReposScanned
    \/ GitHubDataReceived
    \/ GitHubError
    \/ FetchClientError
    \/ FetchCacheCheck
    \/ FetchNetOk
    \/ FetchNetError

SpecLive ==
    /\ InitCache
    /\ [][NextLive]_vars
    /\ WF_vars(FetchClientError \/ FetchCacheCheck)
    /\ WF_vars(FetchNetOk \/ FetchNetError)

\* The control loop and the fetch tasks both scheduled in the end: a task
\* that can take a step takes one, the network answers, and the loop, as long
\* as it runs, receives a completion message that waits in the channel.  The
\* user selects, retries, rescans and quits at will.
NextLoop ==
    \/ Quit
    \/ MoveDown
    \/ SwitchPane
    \/ RetryGitHub
    \/ Refresh
    \/ ReposScanned
    \/ GitHubDataReceived
    \/ GitHubError
    \/ FetchClientError
    \/ FetchCacheCheck
    \/ FetchNetOk
    \/ FetchNetError

SpecLoop ==
    /\ Init
    /\ [][NextLoop]_vars
    /\ WF_vars(FetchClientError \/ FetchCacheCheck)
    /\ WF_vars(FetchNetOk \/ FetchNetError)
    /\ WF_vars(GitHubDataReceived \/ GitHubError)

\* scan_directory called on its own: on the top directory or on top/out, the
\* .git entries of the directories being any.
ScanCalls ==
    {[fn |-> "scan_directory", arg |-> [git |-> g, root |-> r], ret |-> None] :
        g \in [Dirs -> GitKinds], r \in {Dir.top, Dir.out}}

\* scan_directory(root) runs and returns.
ScanDirectory ==
    /\ call.fn = "scan_directory"
    /\ call.ret = None
    /\ call' = [call EXCEPT !.ret = Some(scan_directory(call.arg.git, call.arg.root))]
    /\ UNCHANGED <<tree, repos, selected, state, active_pane, detail_tab,
                   detail_scroll, should_quit, tab_bar_area, github_fetching,
                   scans, received, scan_detail, CACHE, tasks, REPO_CACHE,
                   scanners>>

InitWalk == \E c \in ScanCalls : StartedWith({}, FALSE, c)

NextWalk == ScanDirectory

SpecWalk == InitWalk /\ [][NextWalk]_vars

\* Scans one after the other and side by side over a tree of one
\* repository: the list pane rescans, with and without emptying the scan
\* cache, the scan tasks are followed step by step and the clock moves in
\* short steps.
NextRescan ==
    \/ Refresh
    \/ ForceRefresh
    \/ ReposScanned
    \/ ScanWalk
    \/ ScanLookup
    \/ ScanAnalysed
    \/ ScanSend
    \/ AdvanceMoment

InitRescan == Started({"a"}, TRUE)

SpecRescan == InitRescan /\ [][NextRescan]_vars

\* Owner and repository names as GitHub has them: not empty, without "/",
\* not ending in ".git".
Owners ==
    {<<"o">>,
     <<"m", "y", "-", "o", "r", "g">>,
     <<"a", ".", "b">>,
     <<"R">>}
RepoNames ==
    {<<"r">>,
     <<"d", "a", "s", "h">>,
     <<"m", "y", "_", "x">>,
     <<"a", ".", "b">>,
     <<"x", "-">>,
     <<"R", "b">>}

\* The remote URLs git prints for owner o and repository r.
SshUrl(o, r) == SshPrefix \o o \o <<"/">> \o r \o DotGit
HttpsUrl(o, r) == <<"h", "t", "t", "p", "s", ":", "/", "/", "g", "i", "t", "h", "u", "b", ".", "c", "o", "m", "/">> \o o \o <<"/">> \o r \o DotGit
HttpsBareUrl(o, r) == <<"h", "t", "t", "p", "s", ":", "/", "/", "g", "i", "t", "h", "u", "b", ".", "c", "o", "m", "/">> \o o \o <<"/">> \o r

\* Remote URLs of other hosts:
\*   "https://gitlab.com/o/r.git"
\*   "git@gitlab.com:o/r.git"
\*   "https://gitlab.com/github.com/r"
\*   "https://notgithub.com/o/r.git"
\*   "https://gitlab.com/o/github.com.git"
\*   "git@notgithub.com:o/r.git"
ForeignUrls ==
    {<<"h", "t", "t", "p", "s", ":", "/", "/", "g", "i", "t", "l", "a", "b", ".", "c", "o", "m", "/", "o", "/", "r", ".", "g", "i", "t">>,
     <<"g", "i", "t", "@", "g", "i", "t", "l", "a", "b", ".", "c", "o", "m", ":", "o", "/", "r", ".", "g", "i", "t">>,
     <<"h", "t", "t", "p", "s", ":", "/", "/", "g", "i", "t", "l", "a", "b", ".", "c", "o", "m", "/", "g", "i", "t", "h", "u", "b", ".", "c", "o", "m", "/", "r">>,
     <<"h", "t", "t", "p", "s", ":", "/", "/", "n", "o", "t", "g", "i", "t", "h", "u", "b", ".", "c", "o", "m", "/", "o", "/", "r", ".", "g", "i", "t">>,
     <<"h", "t", "t", "p", "s", ":", "/", "/", "g", "i", "t", "l", "a", "b", ".", "c", "o", "m", "/", "o", "/", "g", "i", "t", "h", "u", "b", ".", "c", "o", "m", ".", "g", "i", "t">>,
     <<"g", "i", "t", "@", "n", "o", "t", "g", "i", "t", "h", "u", "b", ".", "c", "o", "m", ":", "o", "/", "r", ".", "g", "i", "t">>}

\* Inputs that are no remote URL of a GitHub repository:
\*   "https://github.com/o"
\*   "https://github.com"
\*   "https://github.com/"
\*   "git@github.com:o"
\*   "git@github.com:"
\*   "github.com"
\*   ""
\*   "o/r"
MalformedUrls ==
    {<<"h", "t", "t", "p", "s", ":", "/", "/", "g", "i", "t", "h", "u", "b", ".", "c", "o", "m", "/", "o">>,
     <<"h", "t", "t", "p", "s", ":", "/", "/", "g", "i", "t", "h", "u", "b", ".", "c", "o", "m">>,
     <<"h", "t", "t", "p", "s", ":", "/", "/", "g", "i", "t", "h", "u", "b", ".", "c", "o", "m", "/">>,
     <<"g", "i", "t", "@", "g", "i", "t", "h", "u", "b", ".", "c", "o", "m", ":", "o">>,
     <<"g", "i", "t", "@", "g", "i", "t", "h", "u", "b", ".", "c", "o", "m", ":">>,
     <<"g", "i", "t", "h", "u", "b", ".", "c", "o", "m">>,
     <<>>,
     <<"o", "/", "r">>}

\* parse_github_url called on its own, on each of these URLs.
ParseCalls ==
    {[fn |-> "parse_github_url", arg |-> u, ret |-> None] :
        u \in {SshUrl(o, r) : o \in Owners, r \in RepoNames}
              \cup {HttpsUrl(o, r) : o \in Owners, r \in RepoNames}
              \cup {HttpsBareUrl(o, r) : o \in Owners, r \in RepoNames}
              \cup ForeignUrls \cup MalformedUrls}

\* parse_github_url(url) runs and returns.
ParseGithubUrl ==
    /\ call.fn = "parse_github_url"
    /\ call.ret = None
    /\ call' = [call EXCEPT !.ret = Some(parse_github_url(call.arg))]
    /\ UNCHANGED <<tree, repos, selected, state, active_pane, detail_tab,
                   detail_scroll, should_quit, tab_bar_area, github_fetching,
                   scans, received, scan_detail, CACHE, tasks, REPO_CACHE,
                   scanners>>

InitParse == \E c \in ParseCalls : StartedWith({}, FALSE, c)

NextParse == ParseGithubUrl

SpecParse == InitParse /\ [][NextParse]_vars

\* The statuses of one entry: one flag, or an index flag with a worktree flag.
EntryStatuses ==
    LET IndexFlags == {"INDEX_NEW", "INDEX_MODIFIED", "INDEX_DELETED",
                       "INDEX_RENAMED"}
        WtFlags == {"WT_NEW", "WT_MODIFIED", "WT_DELETED", "WT_RENAMED"}
    IN {{f} : f \in IndexFlags \cup WtFlags \cup {"IGNORED"}}
           \cup {{f, g} : f \in IndexFlags, g \in WtFlags}

\* The path of the entry at position i; an entry without a UTF-8 path has
\* none.
EntryPaths(i) == {Some(<<"f", <<"a", "b", "c", "d">>[i]>>), None}

\* The status lists of at most MaxEntries entries.
StatusLists ==
    UNION {{es \in [1..n -> [status : EntryStatuses,
                             path : UNION {EntryPaths(i) : i \in 1..n}]] :
                \A i \in 1..n : es[i].path \in EntryPaths(i)} :
           n \in 0..MaxEntries}

\* get_repo_status called on its own: repo.statuses(None) fails or gives
\* one of the status lists.
StatusCalls ==
    {[fn |-> "get_repo_status", arg |-> st, ret |-> None] :
        st \in {[ok |-> FALSE, entries |-> <<>>]}
               \cup {[ok |-> TRUE, entries |-> es] : es \in StatusLists}}

\* get_repo_status(repo) runs and returns.
GetRepoStatus ==
    /\ call.fn = "get_repo_status"
    /\ call.ret = None
    /\ call' = [call EXCEPT !.ret = Some(get_repo_status(call.arg))]
    /\ UNCHANGED <<tree, repos, selected, state, active_pane, detail_tab,
                   detail_scroll, should_quit, tab_bar_area, github_fetching,
                   scans, received, scan_detail, CACHE, tasks, REPO_CACHE,
                   scanners>>

InitStatus == \E c \in StatusCalls : StartedWith({}, FALSE, c)

NextStatus == GetRepoStatus

SpecStatus == InitStatus /\ [][NextStatus]_vars

\* The messages that run the fetch-trigger check, the one scan and the
\* fetches with their results.
NextTrigger ==
    \/ MoveUp
    \/ MoveDown
    \/ SwitchPane
    \/ Click
    \/ RetryGitHub
    \/ ForceRetryGitHub
    \/ ReposScanned
    \/ GitHubDataReceived
    \/ GitHubError
    \/ FetchClientError
    \/ FetchCacheCheck
    \/ FetchNetOk
    \/ FetchNetError

SpecTrigger == Init /\ [][NextTrigger]_vars

\* The refresh keys in both panes next to the retry messages: the pane is
\* switched, the list rescanned and the fetches run to their results.
NextDetail ==
    \/ SwitchPane
    \/ Refresh
    \/ ForceRefresh
    \/ RetryGitHub
    \/ ForceRetryGitHub
    \/ ReposScanned
    \/ GitHubDataReceived
    \/ GitHubError
    \/ FetchClientError
    \/ FetchCacheCheck
    \/ FetchNetOk
    \/ FetchNetError

SpecDetail == Init /\ [][NextDetail]_vars

\* The scanner and its cache: the rescans of the list pane, the scan tasks
\* step by step and their results, and the fetches that fill the GitHub
\* cache.
NextScan ==
    \/ MoveDown
    \/ FetchCacheCheck
    \/ FetchNetOk
    \/ GitHubDataReceived
    \/ Refresh
    \/ ForceRefresh
    \/ ReposScanned
    \/ ScanWalk
    \/ ScanLookup
    \/ ScanAnalysed
    \/ ScanSend
    \/ AdvanceTime

SpecScan == InitScan /\ [][NextScan]_vars

\* ===================================================================== claims
\* Steps of the control loop, by the message processed.
Completion == GitHubDataReceived \/ GitHubError
SelectionStep == MoveUp \/ MoveDown \/ SwitchPane \/ Click
RetryStep ==
    \/ RetryGitHub
    \/ ForceRetryGitHub
    \/ (active_pane = "Detail" /\ (Refresh \/ ForceRefresh))
RescanStep ==
    \/ ReposScanned
    \/ (active_pane = "RepoList" /\ (Refresh \/ ForceRefresh))

\* The repository the selection designates needs a fetch: it has GitHub
\* coordinates, no data, no error, and no fetch in flight.
Needs(r, fetching) ==
    /\ IsSome(r.github_repo)
    /\ ~IsSome(r.github_data)
    /\ ~IsSome(r.github_error)
    /\ r.path \notin fetching

\* What the fetch-trigger check does in a step that leaves repository r
\* selected: one more fetch of r and r in flight, or nothing at all.
Triggered(r) ==
    IF Needs(r, github_fetching)
    THEN /\ github_fetching' = github_fetching \cup {r.path}
         /\ FetchesOf(tasks', r.path) = FetchesOf(tasks, r.path) + 1
         /\ BagCardinality(tasks') = BagCardinality(tasks) + 1
    ELSE /\ github_fetching' = github_fetching
         /\ tasks' = tasks

\* C1: no repository of the list has github_data and github_error set at the
\* same time.
C1_DataXorError ==
    \A i \in 1..Len(repos) :
        ~(IsSome(repos[i].github_data) /\ IsSome(repos[i].github_error))

\* C2: for each path at most one fetch is outstanding (launched, completion
\* message not yet processed).
C2_OneFetchPerPath == \A p \in PathSet : Outstanding(p) <= 1

\* C3: while a repository's fetch is in flight (launched, not completed, no
\* retry or rescan since), selecting it again by MoveUp, MoveDown, SwitchPane
\* or a list Click launches no further fetch for it: no step that changes the
\* number of its outstanding fetches is a selection.
C3_SelectionDedup ==
    [][\A p \in PathSet :
          (/\ p \in github_fetching
           /\ Outstanding(p) >= 1
           /\ FetchesOf(tasks', p) # Outstanding(p))
          => ~SelectionStep]_vars

\* C3, the case: the selected repository has exactly one fetch in flight and
\* neither data nor error, and the loop is running, so that it can be selected
\* again.
C3_Witness ==
    /\ ~should_quit
    /\ IsSome(selected_repo(repos, selected))
    /\ Unwrap(selected_repo(repos, selected)).path \in github_fetching
    /\ Outstanding(Unwrap(selected_repo(repos, selected)).path) = 1
    /\ ~IsSome(Unwrap(selected_repo(repos, selected)).github_data)
    /\ Len(repos) = 2
    /\ active_pane = "RepoList"

\* C4: a completion message whose path no repository of the list has leaves
\* the whole dashboard state unchanged.
C4_StaleCompletionNoop ==
    [][(Completion /\ FindByPath(repos, received'.path) = 0)
       => UNCHANGED <<repos, selected, state, active_pane, detail_tab,
                      detail_scroll, should_quit, github_fetching>>]_vars

\* C4, the case: the result processed last was a completion for a path that
\* the list (unchanged since: the state is Ready) does not hold.
C4_Witness ==
    /\ received.type \in {"GitHubDataReceived", "GitHubError"}
    /\ state = "Ready"
    /\ repos # <<>>
    /\ FindByPath(repos, received.path) = 0

\* C5 as claimed: the completion of a fetch launched before the last rescan
\* (its path has left the in-flight set since) changes no repository of the
\* new list.
C5_LateResultNoop ==
    [][(Completion /\ received'.path \notin github_fetching)
       => repos' = repos]_vars

\* C5 amended: such a completion is a no-op when the new list has no
\* repository with its path; when it has one, the message is applied to that
\* repository (data or error set) and every other repository is unchanged.
C5_LateResultByPath ==
    [][(Completion /\ received'.path \notin github_fetching)
       => LET i == FindByPath(repos, received'.path) IN
          /\ Len(repos') = Len(repos)
          /\ \A j \in 1..Len(repos) : j # i => repos'[j] = repos[j]
          /\ i # 0 =>
                /\ repos'[i].path = repos[i].path
                /\ repos'[i].github_repo = repos[i].github_repo
                /\ IF received'.type = "GitHubDataReceived"
                   THEN /\ IsSome(repos'[i].github_data)
                        /\ ~IsSome(repos'[i].github_error)
                   ELSE /\ IsSome(repos'[i].github_error)
                        /\ repos'[i].github_data = repos[i].github_data]_vars

\* C5, the case: a fetch launched before the rescan has delivered its data to
\* the repository of the same path in the new list, no fetch having been
\* launched for it since the rescan.
C5_Witness ==
    /\ received.type = "GitHubDataReceived"
    /\ state = "Ready"
    /\ received.path \notin github_fetching
    /\ FindByPath(repos, received.path) # 0
    /\ IsSome(repos[FindByPath(repos, received.path)].github_data)

\* C6: right after a completion message for a path is processed,
\* the path is not in the in-flight set.
C6_CompletionRemoves ==
    [][Completion => received'.path \notin github_fetching']_vars

\* The cache entry of key k can be served: present and younger than the TTL.
Fresh(k) == IsSome(CACHE[k]) /\ Unwrap(CACHE[k]).age < CACHE_TTL

\* Task t as it is once fetch_repo_data has returned the cached data.
ServedFromCache(t) ==
    [t EXCEPT !.pc = "sent",
              !.msg = Some([type |-> "GitHubDataReceived", path |-> t.path,
                            data |-> Unwrap(CACHE[t.key]).data])]

\* C7: ForceRetryGitHub removes the cache entry of the selected repository's
\* "owner/repo" and no other; RetryGitHub removes none, clears the selected
\* repository's data and error and launches its fetch; and a fetch that finds
\* the entry of its key within the TTL returns the stored data without a
\* network call, the cache unchanged.
C7_RetryAndCache ==
    [][LET r == selected_repo(repos, selected) IN
       /\ ForceRetryGitHub =>
             \A k \in Keys :
                CACHE'[k] = IF IsSome(r) /\ Unwrap(r).github_repo = Some(k)
                            THEN None ELSE CACHE[k]
       /\ RetryGitHub =>
             /\ CACHE' = CACHE
             /\ IsSome(r) =>
                   /\ repos'[Unwrap(selected) + 1].github_data = None
                   /\ repos'[Unwrap(selected) + 1].github_error = None
                   /\ IsSome(Unwrap(r).github_repo) =>
                         FetchesOf(tasks', Unwrap(r).path) = Outstanding(Unwrap(r).path) + 1
       /\ \A t \in BagToSet(tasks) :
             (/\ FetchCacheCheck
              /\ t.pc = "start"
              /\ CopiesIn(t, tasks') < CopiesIn(t, tasks)
              /\ Fresh(t.key))
             => /\ tasks' = (tasks (-) SetToBag({t}))
                            (+) SetToBag({ServedFromCache(t)})
                /\ CACHE' = CACHE]_vars

\* C7, the case: data was delivered to a repository of the list, a retry has
\* cleared it since (the list was not replaced: the state is Ready), the
\* fetch the retry launched is about to find the cache entry within its TTL,
\* and the cache holds an entry of another repository as well.
C7_Witness ==
    /\ received.type = "GitHubDataReceived"
    /\ state = "Ready"
    /\ FindByPath(repos, received.path) # 0
    /\ repos[FindByPath(repos, received.path)].github_data = None
    /\ repos[FindByPath(repos, received.path)].github_error = None
    /\ \E t \in BagToSet(tasks) :
          /\ t.path = received.path
          /\ t.pc = "start"
          /\ Fresh(t.key)
          /\ \E k \in Keys : k # t.key /\ IsSome(CACHE[k])

\* C8: a github_error that is set stays set over every step, unless the step
\* is a retry with that repository selected or a rescan replacing the list.
C8_ErrorSticks ==
    [][\A i \in 1..Len(repos) :
          IsSome(repos[i].github_error)
          => \/ /\ i <= Len(repos')
                /\ repos'[i].path = repos[i].path
                /\ IsSome(repos'[i].github_error)
             \/ (RetryStep /\ selected = Some(i - 1))
             \/ RescanStep]_vars

\* C9: ReposScanned(list) replaces the list by a freshly scanned one, empties
\* the in-flight set, sets the state to Ready and, the list being non-empty,
\* selects index 0.  (ReposScanned is the one step that takes a scan result
\* off the count; that test comes first because it is the cheaper one.)
C9_ReposScanned ==
    [][(scans' = scans - 1 /\ ReposScanned)
       => /\ repos' \in ScanLists(tree)
          /\ github_fetching' = {}
          /\ state' = "Ready"
          /\ repos' # <<>> => selected' = Some(0)]_vars

\* C9, the case: a non-empty list was installed by the ReposScanned processed
\* last, over a selection made in an earlier list.
C9_Witness ==
    /\ received.type = "ReposScanned"
    /\ state = "Ready"
    /\ Len(repos) = 2
    /\ selected = Some(0)
    /\ github_fetching = {}
    /\ OutstandingAll > 0

\* C10: in the list pane with n > 0 repositories and index i selected,
\* MoveDown selects (i + 1) mod n and MoveUp (i - 1) mod n; both reset scroll
\* and tab and run the fetch-trigger check on the newly selected repository.
C10_MoveWraps ==
    [][(/\ active_pane = "RepoList"
        /\ repos # <<>>
        /\ IsSome(selected))
       => LET n == Len(repos)
              i == Unwrap(selected)
          IN
          /\ MoveDown =>
                /\ selected' = Some((i + 1) % n)
                /\ detail_scroll' = 0
                /\ detail_tab' = "Changes"
                /\ repos' = repos
                /\ Triggered(repos[((i + 1) % n) + 1])
          /\ MoveUp =>
                /\ selected' = Some((i + n - 1) % n)
                /\ detail_scroll' = 0
                /\ detail_tab' = "Changes"
                /\ repos' = repos
                /\ Triggered(repos[((i + n - 1) % n) + 1])]_vars

\* C10, the case: in a list of two the second repository is selected in the
\* list pane, which only a move or a click from the first does.
C10_Witness ==
    /\ active_pane = "RepoList"
    /\ Len(repos) = 2
    /\ selected = Some(1)
    /\ detail_tab = "Changes"
    /\ detail_scroll = 0
    /\ ~should_quit

\* What neither MoveUp nor MoveDown touches in the detail pane; no fetch is
\* launched when the bag of tasks is unchanged.
DetailScrollFrame ==
    UNCHANGED <<selected, active_pane, detail_tab, repos, github_fetching, tasks>>

\* C11 as claimed: in the detail pane MoveUp takes the scroll offset down by 1
\* but not below 0 and MoveDown takes it up by 1, whatever the offset; neither
\* changes selection, pane, tab, list or in-flight set or launches a fetch.
C11_DetailScroll ==
    [][active_pane = "Detail"
       => /\ MoveUp =>
                /\ detail_scroll' = (IF detail_scroll = 0 THEN 0 ELSE detail_scroll - 1)
                /\ DetailScrollFrame
          /\ MoveDown =>
                /\ detail_scroll' = detail_scroll + 1
                /\ DetailScrollFrame]_vars

\* C11 amended: the same, MoveDown taking the offset up by 1 only below the
\* largest u16 value, 65535, where it leaves the offset as it is.
C11_DetailScrollSaturates ==
    [][active_pane = "Detail"
       => /\ MoveUp =>
                /\ detail_scroll' = (IF detail_scroll = 0 THEN 0 ELSE detail_scroll - 1)
                /\ DetailScrollFrame
          /\ MoveDown =>
                /\ detail_scroll' = (IF detail_scroll = U16_MAX THEN U16_MAX
                                     ELSE detail_scroll + 1)
                /\ DetailScrollFrame]_vars

\* C11, the case: MoveDown has scrolled the detail pane to the largest offset.
C11_Witness ==
    /\ active_pane = "Detail"
    /\ detail_scroll = U16_MAX
    /\ ~should_quit

\* C12: SwitchPane makes the other pane active (so two of them restore the
\* pane), resets the scroll offset to 0, keeps selection, list and tab, and
\* runs the fetch-trigger check on the selected repository: a fetch is
\* launched exactly when it has GitHub coordinates and neither data, error
\* nor fetch in flight.
C12_SwitchPane ==
    [][SwitchPane
       => /\ active_pane' # active_pane
          /\ active_pane' \in {"RepoList", "Detail"}
          /\ detail_scroll' = 0
          /\ UNCHANGED <<selected, repos, detail_tab, state>>
          /\ IF IsSome(selected_repo(repos, selected))
             THEN Triggered(Unwrap(selected_repo(repos, selected)))
             ELSE UNCHANGED <<github_fetching, tasks>>]_vars

\* C12, the case: the detail pane is active and the repository the scan
\* selected has its fetch launched and in flight.
C12_Witness ==
    /\ active_pane = "Detail"
    /\ received.type = "ReposScanned"
    /\ IsSome(selected_repo(repos, selected))
    /\ Unwrap(selected_repo(repos, selected)).path \in github_fetching
    /\ Outstanding(Unwrap(selected_repo(repos, selected)).path) = 1
    /\ detail_scroll = 0

\* C13: Refresh in the list pane empties the list, sets the state to Scanning
\* and launches exactly one scan task, from which exactly one ReposScanned
\* will come (every scan task counted is running or has its one message
\* pending); it changes neither the scan cache nor the GitHub cache.
C13_RefreshList ==
    [][/\ (active_pane = "RepoList" /\ scans' = scans + 1 /\ Refresh)
          => /\ repos' = <<>>
             /\ state' = "Scanning"
             /\ scanners' = scanners (+) SetToBag({NewScanner(FALSE)})
             /\ REPO_CACHE' = REPO_CACHE
             /\ CACHE' = CACHE
       /\ BagCardinality(scanners') = scans'
       /\ scans' < scans
          => \E sc \in ScansSent : scanners' = scanners (-) SetToBag({sc})]_vars

\* C13, the case: after a first list was installed, Refresh has emptied it and
\* launched a scan, both caches holding an entry.
C13_Witness ==
    /\ received.type \in {"ReposScanned", "GitHubDataReceived"}
    /\ state = "Scanning"
    /\ repos = <<>>
    /\ \E sc \in BagToSet(scanners) : ~sc.forced /\ sc.pc = "start"
    /\ \E q \in PathSet : IsSome(REPO_CACHE[q])
    /\ \E k \in Keys : IsSome(CACHE[k])

RetryEffect ==
    LET r == selected_repo(repos, selected) IN
    /\ UNCHANGED <<selected, state, active_pane, detail_tab, detail_scroll,
                   should_quit, scans, REPO_CACHE, scanners>>
    /\ Len(repos') = Len(repos)
    /\ IF IsSome(r)
       THEN /\ \A i \in 1..Len(repos) :
                  repos'[i] = IF i = Unwrap(selected) + 1
                              THEN [repos[i] EXCEPT !.github_data = None,
                                                    !.github_error = None]
                              ELSE repos[i]
            /\ IF IsSome(Unwrap(r).github_repo)
               THEN /\ github_fetching' = github_fetching \cup {Unwrap(r).path}
                    /\ FetchesOf(tasks', Unwrap(r).path)
                          = FetchesOf(tasks, Unwrap(r).path) + 1
                    /\ BagCardinality(tasks') = BagCardinality(tasks) + 1
               ELSE /\ github_fetching' = github_fetching \ {Unwrap(r).path}
                    /\ tasks' = tasks
       ELSE UNCHANGED <<repos, github_fetching, tasks>>

\* C15: in the detail pane a Refresh step is a RetryGitHub step and a
\* ForceRefresh step a ForceRetryGitHub step, and the other way round; each
\* has the effect of a retry, the forced ones dropping the GitHub cache entry
\* of the selected repository and the others leaving the cache alone.
C15_DetailRefreshIsRetry ==
    [][(active_pane = "Detail" /\ received' = received)
       => /\ Refresh => (RetryGitHub /\ RetryEffect /\ CACHE' = CACHE)
          /\ RetryGitHub => Refresh
          /\ ForceRetryGitHub => ForceRefresh
          /\ ForceRefresh =>
                /\ ForceRetryGitHub
                /\ RetryEffect
                /\ \A k \in Keys :
                      CACHE'[k] =
                         IF /\ IsSome(selected_repo(repos, selected))
                            /\ Unwrap(selected_repo(repos, selected)).github_repo = Some(k)
                         THEN None ELSE CACHE[k]]_vars

\* C15, the case: in the detail pane the data delivered to the selected
\* repository has been cleared again and a fetch launched for it, the list
\* still in place.
C15_Witness ==
    /\ active_pane = "Detail"
    /\ state = "Ready"
    /\ received.type = "GitHubDataReceived"
    /\ IsSome(selected_repo(repos, selected))
    /\ Unwrap(selected_repo(repos, selected)).path = received.path
    /\ Unwrap(selected_repo(repos, selected)).github_data = None
    /\ Outstanding(received.path) >= 1
    /\ Len(repos) = 2

\* The fetch task t has taken the step that changes the tasks.
Moved(t) == CopiesIn(t, tasks') < CopiesIn(t, tasks)

\* C16: the cache check of fetch_repo_data returns the stored data, with no
\* network request and the cache unchanged, exactly when the entry of its
\* key is present and younger than one hour; otherwise (absent, or one hour
\* old or older) it goes to the network, and the successful answer replaces
\* the old entry.
C16_CacheFirst ==
    [][/\ FetchCacheCheck =>
            \A t \in BagToSet(tasks) :
               (t.pc = "start" /\ Moved(t))
               => /\ CACHE' = CACHE
                  /\ tasks' = (tasks (-) SetToBag({t})) (+)
                        SetToBag({IF IsSome(CACHE[t.key])
                                     /\ Unwrap(CACHE[t.key]).age < CACHE_TTL
                                  THEN ServedFromCache(t)
                                  ELSE [t EXCEPT !.pc = "net"]})
       /\ FetchNetOk =>
            \A t \in BagToSet(tasks) :
               (t.pc = "net" /\ Moved(t) /\ IsSome(CACHE[t.key]))
               => \E d \in DataVals :
                     /\ CACHE'[t.key] = Some([data |-> d, age |-> 0])
                     /\ CopiesIn([t EXCEPT !.pc = "sent",
                                    !.msg = Some([type |-> "GitHubDataReceived",
                                                  path |-> t.path, data |-> d])],
                                 tasks') >= 1]_vars

\* C16, the case: the only fetch under way is at the network although the
\* cache holds an entry of its key, that entry being one hour old.
C16_Witness ==
    /\ OutstandingAll = 1
    /\ \E t \in BagToSet(tasks) :
          /\ t.pc = "net"
          /\ IsSome(CACHE[t.key])
          /\ Unwrap(CACHE[t.key]).age >= CACHE_TTL

\* The fetch task t has returned Ok(d) on this step: its GitHubDataReceived
\* message is sent.
Succeeded(t, d) ==
    /\ t.pc # "sent"
    /\ Moved(t)
    /\ CopiesIn([t EXCEPT !.pc = "sent",
                   !.msg = Some([type |-> "GitHubDataReceived",
                                 path |-> t.path, data |-> d])], tasks')
         > CopiesIn([t EXCEPT !.pc = "sent",
                      !.msg = Some([type |-> "GitHubDataReceived",
                                    path |-> t.path, data |-> d])], tasks)

\* The fetch task t has failed on this step: its GitHubError message is sent.
Failed(t) ==
    /\ t.pc # "sent"
    /\ Moved(t)
    /\ \E e \in ErrVals :
          CopiesIn([t EXCEPT !.pc = "sent",
                     !.msg = Some([type |-> "GitHubError",
                                   path |-> t.path, error |-> e])], tasks')
          > CopiesIn([t EXCEPT !.pc = "sent",
                       !.msg = Some([type |-> "GitHubError",
                                     path |-> t.path, error |-> e])], tasks)

\* C17 as claimed: whenever a fetch returns data, the cache entry of its
\* "owner/repo" is that data stamped with the current time, whatever the
\* entry was before; a fetch that fails leaves the cache as it was.
C17_EverySuccessWritten ==
    [][\A t \in BagToSet(tasks) :
          /\ \A d \in DataVals :
                Succeeded(t, d) => CACHE' = [CACHE EXCEPT ![t.key] =
                                               Some([data |-> d, age |-> 0])]
          /\ Failed(t) => CACHE' = CACHE]_vars

\* C17: whenever a fetch returns data it got from the network (it was not
\* served from the cache), the cache entry of its "owner/repo" is that data
\* stamped with the current time, whatever the entry was before, and no other
\* entry changes; a fetch that fails leaves the cache as it was.
C17_NetworkSuccessWritten ==
    [][\A t \in BagToSet(tasks) :
          /\ \A d \in DataVals :
                (t.pc = "net" /\ Succeeded(t, d))
                => CACHE' = [CACHE EXCEPT ![t.key] =
                               Some([data |-> d, age |-> 0])]
          /\ Failed(t) => CACHE' = CACHE]_vars

\* C17, the case: a fetch has just returned data from the network and the
\* entry of its key is that data with age 0, an earlier fetch of the same
\* repository having been delivered before (so an entry was overwritten).
C17_Witness ==
    /\ received.type = "GitHubDataReceived"
    /\ \E t \in BagToSet(tasks) :
          /\ t.pc = "sent"
          /\ t.path = received.path
          /\ Unwrap(t.msg).type = "GitHubDataReceived"
          /\ CACHE[t.key] = Some([data |-> Unwrap(t.msg).data, age |-> 0])
          /\ \E u \in BagToSet(tasks) : u.pc = "net" /\ u.key = t.key

\* C18: for the totals I and P the two endpoints reported to a fetch, the
\* data the fetch returns has open_issues = max(0, I - P), which is never
\* negative, and open_prs = P.
C18_IssueCount ==
    [][FetchCounted =>
         \A t \in BagToSet(tasks) :
            (t.pc = "totals" /\ Moved(t))
            => \E u \in BagToSet(tasks') :
                  /\ u.pc = "sent" /\ u.path = t.path /\ u.key = t.key
                  /\ CopiesIn(u, tasks) < CopiesIn(u, tasks')
                  /\ Unwrap(u.msg).type = "GitHubDataReceived"
                  /\ Unwrap(u.msg).data.open_issues
                       = (IF Unwrap(t.msg).total_issues - Unwrap(t.msg).total_prs > 0
                          THEN Unwrap(t.msg).total_issues - Unwrap(t.msg).total_prs
                          ELSE 0)
                  /\ Unwrap(u.msg).data.open_issues >= 0
                  /\ Unwrap(u.msg).data.open_prs = Unwrap(t.msg).total_prs
                  /\ CACHE'[t.key] = Some([data |-> Unwrap(u.msg).data, age |-> 0])]_vars

\* C18, the case: the repository shows the data of totals 3 and 5 (no open
\* issue, five pull requests) while a second fetch has returned the data of
\* totals 12 and 5 (seven open issues).
C18_Witness ==
    /\ Len(repos) = 1
    /\ repos[1].github_data = Some([open_issues |-> 0, open_prs |-> 5])
    /\ \E t \in BagToSet(tasks) :
          /\ t.pc = "sent"
          /\ Unwrap(t.msg).type = "GitHubDataReceived"
          /\ Unwrap(t.msg).data = [open_issues |-> 7, open_prs |-> 5]

\* C19: processing GitHubError { path, error } sets the github_error of the
\* repository with that path to the error and changes nothing else: the
\* other fields of that repository, the other repositories, selection, pane,
\* tab, scroll, state and both caches stay as they are and the scans under
\* way are the same as before.
C19_ErrorFrame ==
    [][GitHubError =>
         \E t \in Sent :
            /\ Unwrap(t.msg).type = "GitHubError"
            /\ tasks' = tasks (-) SetToBag({t})
            /\ Len(repos') = Len(repos)
            /\ \A i \in 1..Len(repos) :
                  repos'[i] = IF repos[i].path = Unwrap(t.msg).path
                              THEN [repos[i] EXCEPT
                                      !.github_error = Some(Unwrap(t.msg).error)]
                              ELSE repos[i]
            /\ UNCHANGED <<selected, active_pane, detail_tab, detail_scroll,
                           state, should_quit, CACHE, REPO_CACHE, scans,
                           scanners>>]_vars

\* C19, the case: an error has been delivered to a repository of a list of
\* two that holds data, the data still there, while a scan is under way and
\* the GitHub cache holds an entry.
C19_Witness ==
    /\ received.type = "GitHubError"
    /\ Len(repos) = 2
    /\ FindByPath(repos, received.path) # 0
    /\ IsSome(repos[FindByPath(repos, received.path)].github_error)
    /\ IsSome(repos[FindByPath(repos, received.path)].github_data)
    /\ scans >= 1
    /\ \E k \in Keys : IsSome(CACHE[k])

\* C20: Quit sets should_quit and leaves every other field of the dashboard,
\* the caches, the tasks and the scans alone (the frame drawn before it is the
\* loop's); once should_quit is set no message is taken or applied any more,
\* the results that wait in the channel included; and no step resets the flag.
C20_QuitEndsLoop ==
    [][/\ Quit =>
            /\ should_quit'
            /\ UNCHANGED <<repos, selected, state, active_pane, detail_tab,
                           detail_scroll, github_fetching, CACHE, REPO_CACHE,
                           tasks, scans, scanners, received>>
       /\ should_quit =>
            /\ should_quit'
            /\ UNCHANGED <<repos, selected, state, active_pane, detail_tab,
                           detail_scroll, github_fetching, tab_bar_area,
                           tasks, scans, scanners, received>>]_vars

\* C20, the case: Quit has been processed while a fetch result and a scan
\* result were waiting behind it.
C20_Witness ==
    /\ should_quit
    /\ Sent # {}
    /\ scans >= 1
    /\ repos # <<>>

\* m is a completion message of the fetch task t: GitHubDataReceived or
\* GitHubError, with the path the task was launched with.
CompletionOf(t, m) ==
    /\ m.type \in {"GitHubDataReceived", "GitHubError"}
    /\ m.path = t.path

\* C21: a fetch task that moves on either goes to the network, nothing sent,
\* or sends one message, GitHubDataReceived or GitHubError with the path it
\* was launched with, and then takes no step any more: the only step that
\* changes a task that has sent is the loop receiving its message.  Every
\* task launched does send its message in the end, whether the client could
\* not be built, the fetch failed or the fetch succeeded.
C21_OneCompletion ==
    /\ [][\A t \in BagToSet(tasks) :
            Moved(t)
            => IF t.pc = "sent"
               THEN /\ Completion
                    /\ tasks' = tasks (-) SetToBag({t})
                    /\ received' = [type |-> Unwrap(t.msg).type, path |-> t.path]
               ELSE /\ t.msg = None
                    /\ \E u \in BagToSet(tasks') :
                          /\ tasks' = (tasks (-) SetToBag({t})) (+) SetToBag({u})
                          /\ u.path = t.path /\ u.key = t.key
                          /\ \/ u.pc = "net" /\ t.pc = "start" /\ u.msg = None
                             \/ /\ u.pc = "sent"
                                /\ IsSome(u.msg)
                                /\ CompletionOf(t, Unwrap(u.msg))]_vars
    /\ \A p \in PathSet :
          (\E t \in BagToSet(tasks) : t.path = p /\ t.pc # "sent")
          ~> (\E t \in BagToSet(tasks) :
                 t.path = p /\ t.pc = "sent" /\ CompletionOf(t, Unwrap(t.msg)))

\* C21, the case: the fetches of two repositories have both sent, one its
\* data and the other an error, and neither message has been received yet.
C21_Witness ==
    /\ BagCardinality(tasks) = 2
    /\ \E t \in BagToSet(tasks) :
          t.pc = "sent" /\ Unwrap(t.msg).type = "GitHubDataReceived"
    /\ \E t \in BagToSet(tasks) :
          t.pc = "sent" /\ Unwrap(t.msg).type = "GitHubError"

\* scan_directory has returned the list ret for the root and the .git
\* entries of the call.
Scanned == call.fn = "scan_directory" /\ IsSome(call.ret)
ScanRet == Unwrap(call.ret)
ScanRoot == call.arg.root
ScanGit == call.arg.git

\* The paths of the list returned.
RetPaths == {ScanRet[i].path : i \in 1..Len(ScanRet)}

\* Directory d lies below directory r.
Below(r, d) == Len(d) > Len(r) /\ SubSeq(d, 1, Len(r)) = r

\* A name the walk does not enter: hidden, or on the skip-list.
NameSkipped(n) == n[1] = "." \/ n \in SKIP_DIRS

\* Directory d is reached from the root r through names that are not
\* skipped, its own included.
Reachable(r, d) ==
    /\ Below(r, d)
    /\ \A i \in (Len(r) + 1)..Len(d) : ~NameSkipped(d[i])

\* C22: the list scan_directory returns is sorted by name without regard to
\* case: of two adjacent entries the lowercase name of the first is not
\* greater than that of the second.
C22_SortedByName ==
    Scanned =>
        \A i \in 1..(Len(ScanRet) - 1) :
            StrLeq(to_lowercase(ScanRet[i].name), to_lowercase(ScanRet[i + 1].name))

\* C22, the case: the list returned holds "ra" right before "Rb", found in
\* the other order, and a third repository.
C22_Witness ==
    /\ Scanned
    /\ Len(ScanRet) >= 3
    /\ \E i \in 1..(Len(ScanRet) - 1) :
          ScanRet[i].path = Dir.ra /\ ScanRet[i + 1].path = Dir.rb

C26_SkippedNeverReturned ==
    Scanned =>
        /\ \A d \in RetPaths :
              \A i \in (Len(ScanRoot) + 1)..Len(d) :
                 /\ ~starts_with(d[i], <<".">>)
                 /\ d[i] \notin SKIP_DIRS
        /\ (ScanRoot = Dir.out /\ ScanGit[Dir.out] = "none" /\ ScanGit[Dir.dep] = "repo")
              => Dir.dep \in RetPaths

\* C26, the case: a hidden directory, a directory on the skip-list and a
\* directory below it are repositories, and the list returned holds other
\* repositories and none of the three.
C26_Witness ==
    /\ Scanned
    /\ ScanRoot = Dir.top
    /\ ScanGit[Dir.hidden] = "repo" /\ ScanGit[Dir.out] = "repo" /\ ScanGit[Dir.dep] = "repo"
    /\ Len(ScanRet) >= 2
    /\ RetPaths \cap {Dir.hidden, Dir.out, Dir.dep} = {}

\* The scan task sc has taken the step that changes the scan tasks.
ScanMoved(sc) == CopiesIn(sc, scanners') < CopiesIn(sc, scanners)

\* The scan cache holds an entry of path q that is younger than one hour.
FreshScan(q) == IsSome(REPO_CACHE[q]) /\ Unwrap(REPO_CACHE[q]).age < REPO_CACHE_TTL

\* C27: a scan that looks up a repository whose cache entry is younger than
\* one hour takes the cached info and does not run the uncached analysis, and
\* the lookup, hit or miss, leaves the cache and so the entry's age as they
\* are; an entry younger than one hour stays so over every step but the
\* passing of time and ForceRefresh in the list pane; and the list a scan
\* delivers holds the repositories it took from the cache and those it
\* analysed alike.  So a second scan of the same tree within the hour, the
\* cache not emptied in between, delivers the list of the first and analyses
\* nothing the first has analysed.
C27_SecondScanHits ==
    [][/\ ScanLookup =>
            \A sc \in BagToSet(scanners) :
               (sc.pc = "walk" /\ ScanMoved(sc))
               => /\ REPO_CACHE' = REPO_CACHE
                  /\ \E q \in sc.todo :
                        scanners' = (scanners (-) SetToBag({sc})) (+)
                           SetToBag({IF FreshScan(q)
                                     THEN [sc EXCEPT !.todo = @ \ {q},
                                                     !.done = @ \cup {q},
                                                     !.hits = @ \cup {q}]
                                     ELSE [sc EXCEPT !.todo = @ \ {q},
                                                     !.pc = "analysing",
                                                     !.cur = Some(q)]})
       /\ \A q \in PathSet :
             (/\ FreshScan(q)
              /\ ~AdvanceMoment
              /\ ~(active_pane = "RepoList" /\ ForceRefresh))
             => /\ IsSome(REPO_CACHE'[q])
                /\ Unwrap(REPO_CACHE'[q]).age <= Unwrap(REPO_CACHE[q]).age
       /\ (scans' = scans - 1 /\ ReposScanned) =>
             \E sc \in ScansSent :
                /\ scanners' = scanners (-) SetToBag({sc})
                /\ sc.hits \subseteq sc.done
                /\ repos' = ListOf(sc.done, 1)]_vars

\* C27, the case: a scan that was not forced has ended having taken the
\* repository from the cache, whose entry, written by an earlier scan, is
\* older than when it was written and still younger than one hour.
C27_Witness ==
    /\ \E sc \in BagToSet(scanners) :
          /\ sc.pc = "sent"
          /\ ~sc.forced
          /\ sc.done = {"a"}
          /\ sc.hits = {"a"}
    /\ FreshScan("a")
    /\ Unwrap(REPO_CACHE["a"]).age > 0

\* parse_github_url has returned.
Parsed == call.fn = "parse_github_url" /\ IsSome(call.ret)
ParseRet == Unwrap(call.ret)

\* C28: for every owner and repository name, parse_github_url returns the
\* pair of the two for the SSH URL, for the HTTPS URL ending in ".git" and for
\* the HTTPS URL without that suffix.
C28_ParseRoundTrip ==
    Parsed =>
        \A o \in Owners, r \in RepoNames :
            call.arg \in {SshUrl(o, r), HttpsUrl(o, r), HttpsBareUrl(o, r)}
            => ParseRet = Some(<<o, r>>)

\* C28, the case: the HTTPS URL of "my-org" and "a.b" without the suffix has
\* been parsed into the two names.
C28_Witness ==
    /\ Parsed
    /\ call.arg = HttpsBareUrl(<<"m", "y", "-", "o", "r", "g">>, <<"a", ".", "b">>)
    /\ ParseRet = Some(<<<<"m", "y", "-", "o", "r", "g">>, <<"a", ".", "b">>>>)

\* C29: parse_github_url returns nothing for the URLs of other hosts, those
\* with "github.com" inside another host name or in the path included, and
\* for the malformed inputs; and a pair it returns has neither an empty
\* component nor the host "github.com" as a component.
C29_ForeignAndMalformedRejected ==
    Parsed =>
        /\ call.arg \in ForeignUrls \cup MalformedUrls => ParseRet = None
        /\ IsSome(ParseRet) =>
              /\ Unwrap(ParseRet)[1] # <<>>
              /\ Unwrap(ParseRet)[2] # <<>>
              /\ GithubCom \notin {Unwrap(ParseRet)[1], Unwrap(ParseRet)[2]}

\* get_repo_status has returned for a status list that could be read.
StatusTaken ==
    call.fn = "get_repo_status" /\ IsSome(call.ret) /\ call.arg.ok
StatusRet == Unwrap(call.ret)
StatusEntries == call.arg.entries

\* The positions of the entries with a modified or renamed flag, of those
\* with a new flag and none of the former, and of those with a deleted flag
\* and none of the former two.
ModifiedAt ==
    {i \in 1..Len(StatusEntries) : StatusEntries[i].status \cap ModifiedFlags # {}}
AddedAt ==
    {i \in 1..Len(StatusEntries) : StatusEntries[i].status \cap NewFlags # {}}
        \ ModifiedAt
DeletedAt ==
    {i \in 1..Len(StatusEntries) : StatusEntries[i].status \cap DeletedFlags # {}}
        \ (ModifiedAt \cup AddedAt)
CountedAt == ModifiedAt \cup AddedAt \cup DeletedAt
Letter(i) ==
    IF i \in ModifiedAt THEN "M" ELSE IF i \in AddedAt THEN "A" ELSE "D"
Counts(st) ==
    IF st.kind = "Clean" THEN <<0, 0, 0>>
    ELSE <<st.modified, st.added, st.deleted>>

\* C30: get_repo_status counts every entry in at most one of modified,
\* added and deleted, by the priority modified-or-renamed, new, deleted;
\* changed_files holds one "M ", "A " or "D " line per counted entry, in
\* iteration order, so its length is the sum of the three counts; and the
\* status is Clean exactly when the three counts are zero.
C30_CountsAndLines ==
    StatusTaken =>
        /\ Counts(StatusRet.status)
             = <<Cardinality(ModifiedAt), Cardinality(AddedAt),
                 Cardinality(DeletedAt)>>
        /\ Len(StatusRet.changed_files) = Cardinality(CountedAt)
        /\ \A i \in CountedAt :
              StatusRet.changed_files[Cardinality({j \in CountedAt : j <= i})]
                = <<Letter(i), " ">>
                  \o (IF IsSome(StatusEntries[i].path)
                      THEN Unwrap(StatusEntries[i].path) ELSE <<"?">>)
        /\ StatusRet.status.kind = "Clean" <=> CountedAt = {}

\* C30, the case: an entry new in the index and modified in the worktree was
\* counted as modified only, after an ignored entry that was not counted.
C30_Witness ==
    /\ StatusTaken
    /\ Len(StatusEntries) = 2
    /\ StatusEntries[1].status = {"IGNORED"}
    /\ StatusEntries[2].status = {"INDEX_NEW", "WT_MODIFIED"}
    /\ StatusRet.status = [kind |-> "Dirty", modified |-> 1, added |-> 0,
                           deleted |-> 0]
    /\ StatusRet.changed_files = <<<<"M", " ", "f", "b">>>>

\* The steps in which update runs the fetch-trigger check: a move in the list
\* pane over a list that is not empty, a pane switch, a click that changes
\* the selection, and the retries.
CheckRuns ==
    \/ active_pane = "RepoList" /\ repos # <<>> /\ (MoveUp \/ MoveDown)
    \/ SwitchPane
    \/ selected' # selected /\ Click
    \/ RetryStep

\* The in-flight set as the check finds it: a retry has removed the path of
\* the selected repository before.
FetchingAtCheck ==
    IF RetryStep /\ IsSome(selected_repo(repos, selected))
    THEN github_fetching \ {Unwrap(selected_repo(repos, selected)).path}
    ELSE github_fetching

\* C31: the fetch-trigger check launches a fetch exactly when a repository
\* is selected that has GitHub coordinates, no github_data, no github_error
\* and whose path is not in the in-flight set; the task launched is at its
\* start with the path in the in-flight set, and without a launch the
\* in-flight set stays as the check found it and no task appears.
C31_FetchTrigger ==
    [][(received' = received /\ CheckRuns) =>
          LET r == selected_repo(repos', selected')
              launch == /\ IsSome(r)
                        /\ IsSome(Unwrap(r).github_repo)
                        /\ ~IsSome(Unwrap(r).github_data)
                        /\ ~IsSome(Unwrap(r).github_error)
                        /\ Unwrap(r).path \notin FetchingAtCheck
          IN IF launch
             THEN /\ tasks' = tasks (+) SetToBag({[path |-> Unwrap(r).path,
                                                   key |-> Unwrap(Unwrap(r).github_repo),
                                                   pc |-> "start", msg |-> None]})
                  /\ github_fetching' = FetchingAtCheck \cup {Unwrap(r).path}
             ELSE /\ tasks' = tasks
                  /\ github_fetching' = FetchingAtCheck]_vars

\* C31, the case: the check has launched the fetch of the selected
\* repository, which is in the in-flight set with its task at the start,
\* while the other repository, without GitHub coordinates, has none.
C31_Witness ==
    /\ selected = Some(0)
    /\ Len(repos) = 2
    /\ repos[1].path \in github_fetching
    /\ repos[2].path \notin github_fetching
    /\ \E t \in BagToSet(tasks) : t.path = repos[1].path /\ t.pc = "start"
    /\ ~IsSome(repos[1].github_data)
    /\ ~IsSome(repos[1].github_error)

\* C32: while the state is Scanning the list is empty and nothing is
\* selected; only ReposScanned makes the empty list non-empty, and only
\* Refresh or ForceRefresh in the list pane takes the state to Scanning.
C32_ScanningEmpty ==
    /\ [](state = "Scanning" => repos = <<>> /\ selected = None)
    /\ [][(repos = <<>> /\ repos' # <<>>) => ReposScanned]_vars
    /\ [][(state # "Scanning" /\ state' = "Scanning")
           => (active_pane = "RepoList" /\ (Refresh \/ ForceRefresh))]_vars

\* C32, the case: a list had been installed by ReposScanned and a refresh in
\* the list pane has brought the state back to Scanning, with a fetch of the
\* dropped list still outstanding.
C32_Witness ==
    /\ state = "Scanning"
    /\ received.type = "ReposScanned"
    /\ repos = <<>>
    /\ selected = None
    /\ OutstandingAll >= 1

\* C33: a selection index that is set is smaller than the number of
\* repositories of the list, so that it designates a repository.
C33_SelectionInRange ==
    IsSome(selected) => Unwrap(selected) < Len(repos)

\* A fetch task that can still supply github_data: it has yet to ask the
\* cache or the network, or its data message waits in the channel.
CanSupplyData(t) ==
    t.pc # "sent" \/ Unwrap(t.msg).type = "GitHubDataReceived"

\* C34: after ForceRetryGitHub is processed for a repository, the
\* github_data it receives next comes from a request issued after the
\* force-retry, never from a fetch task that was outstanding before nor from
\* a cache entry such a task writes afterwards.  Results are matched by path
\* alone and tasks run to their message, so once the force-retry is processed
\* the one task it launched is the only task of that path that can still
\* supply data.
C34_ForceRetrySupersedes ==
    [][(/\ received' = received
        /\ IsSome(selected_repo(repos, selected))
        /\ IsSome(Unwrap(selected_repo(repos, selected)).github_repo)
        /\ (ForceRetryGitHub \/ (active_pane = "Detail" /\ ForceRefresh)))
       => SumOver(tasks', {t \in BagToSet(tasks') :
                              /\ t.path = Unwrap(selected_repo(repos, selected)).path
                              /\ CanSupplyData(t)}) = 1]_vars

\* C35: after ForceRefresh in the list pane the next ReposScanned installs
\* the list of the scan ForceRefresh launched, made of analyses performed
\* after the scan cache was emptied: the state is Ready only when no scan is
\* outstanding, a ReposScanned processed while a forced scan is outstanding
\* delivers a forced scan's list, and a forced scan has no cache hit.
C35_ForcedScanInstalled ==
    /\ [](state = "Ready" => scans = 0)
    /\ [][(/\ scans' = scans - 1
           /\ \E sc \in BagToSet(scanners) : sc.forced)
          => \E sc \in ScansSent :
                /\ sc.forced
                /\ scanners' = scanners (-) SetToBag({sc})
                /\ repos' = ListOf(sc.done, 1)]_vars
    /\ [](\A sc \in BagToSet(scanners) : sc.forced => sc.hits = {})

\* C36: in state Ready a selected repository with GitHub coordinates has
\* github_data or github_error, or its path is in the in-flight set.
C36_SelectedIsRequested ==
    (state = "Ready" /\ IsSome(selected_repo(repos, selected)))
    => LET r == Unwrap(selected_repo(repos, selected)) IN
       IsSome(r.github_repo)
       => \/ IsSome(r.github_data)
          \/ IsSome(r.github_error)
          \/ r.path \in github_fetching

\* The repository of path p is in the list, in flight, without data or error.
Pending(p) ==
    /\ p \in github_fetching
    /\ FindByPath(repos, p) # 0
    /\ ~IsSome(repos[FindByPath(repos, p)].github_data)
    /\ ~IsSome(repos[FindByPath(repos, p)].github_error)

\* The result processed last is the completion message of a fetch of path p.
LastCompleted(p) ==
    /\ received.type \in {"GitHubDataReceived", "GitHubError"}
    /\ received.path = p

\* C37: with the fetch tasks and the loop scheduled and the network
\* answering, a fetch outstanding for a path is followed by the processing of
\* a completion message of that path, unless Quit ends the loop first; the
\* message processed leaves the repository of its path, when the list has
\* one, with github_data or github_error; and no repository stays in flight
\* with neither for ever: it gets one of them, or a rescan drops it or
\* empties the in-flight set, or the loop ends.
C37_FetchesComplete ==
    /\ \A p \in PathSet :
          (~should_quit /\ Outstanding(p) >= 1 /\ ~LastCompleted(p))
          ~> (LastCompleted(p) \/ should_quit)
    /\ [][(received' # received /\ Completion
              /\ FindByPath(repos, received'.path) # 0)
          => LET r == repos'[FindByPath(repos, received'.path)] IN
             IsSome(r.github_data) \/ IsSome(r.github_error)]_vars
    /\ \A p \in PathSet :
          Pending(p) ~> (~Pending(p) \/ should_quit)

\* C37, the case: the fetch of the selected repository was in flight with
\* neither data nor error, its task failed and the error message has been
\* processed; the path is still in the in-flight set.
C37_Witness ==
    /\ ~should_quit
    /\ LastCompleted("a")
    /\ received.type = "GitHubError"
    /\ "a" \in github_fetching
    /\ FindByPath(repos, "a") # 0
    /\ IsSome(repos[FindByPath(repos, "a")].github_error)
    /\ Outstanding("a") = 0

====
